---- MODULE Spec2Model ----
(***************************************************************************)
(* A model of the EC2Instance reconciler of kraken-iac/aws-ec2:            *)
(* the declarative objects in the store, the provider's instance pool,     *)
(* the derived StateDeclaration documents, the work queue of the           *)
(* controller, and one action per path through Reconcile.                  *)
(***************************************************************************)
EXTENDS Integers, Sequences, FiniteSets, TLC

\* ------------------------------------------------------------------ bounds
\* ids the provider hands out before it reports insufficient capacity
MaxInstances == 3
\* largest maxCount / minCount a user writes into a spec
MaxCountBound == 2
\* width of the scaled-down machine integer used for the arithmetic probe
IntBits == 5
\* largest page the provider of the list probe answers a request with
MaxPageSize == 2
\* most tags and most states of a FilterOptions of the filter probe
MaxTags == 2
MaxMatchStates == 2
\* precision of the scaled-down float64: numbers of more bits are rounded
MantBits == 3

\* --------------------------------------------------------------- constants
ec2InstanceFinalizer == "aws.kraken-iac.eoinfennessy.com/ec2-instance-finalizer"
nameTagKey == "kraken-name"
namespaceTagKey == "kraken-namespace"
conditionTypeReady == "Ready"
\* time.Minute*2, in seconds
WaitTimeout == 120

\* object identities (name, namespace): one name in two namespaces, so that a
\* filter on the name tag alone would confuse them
Keys == {[name |-> "web", namespace |-> ns] : ns \in {"default", "prod"}}

\* the identity whose object the users of this model create, and the identity
\* of another tenant whose instances share the provider account
Tenant == [name |-> "web", namespace |-> "default"]
Neighbour == [name |-> "web", namespace |-> "prod"]

\* the specs users write; minCount may exceed maxCount, nothing validates it
SpecValues == [maxCount : 1..MaxCountBound, minCount : 1..MaxCountBound, tags : {<< >>}]

VARIABLES
    store,   \* store[k]: the EC2Instance object named k, or Absent
    docs,    \* docs[k]: the StateDeclaration "ec2-"+k.name in k.namespace, or NoDoc
    pool,    \* the provider's instances, in the order DescribeInstances returns them
    queue,   \* keys with a reconcile trigger pending
    pass,    \* record of the Reconcile pass that has just returned, or NoPass
    served,  \* keys whose present object has had a provider call made for it
    probe    \* inputs and result of the pure-function probes

vars == <<store, docs, pool, queue, pass, served, probe>>
ctrlVars == <<store, docs, pool, queue, pass, served>>

Absent == [present |-> FALSE]
NoDoc == [present |-> FALSE]
NoPass == [branch |-> "none"]
NoProbe == [op |-> "none"]

\* ----------------------------------------------------------------- helpers
Range(s) == {s[i] : i \in DOMAIN s}

\* the program's int, scaled down to IntBits bits: arithmetic wraps around
IntMin == -(2 ^ (IntBits - 1))
IntMax == 2 ^ (IntBits - 1) - 1
Ints == IntMin..IntMax
Wrap(x) == ((x - IntMin) % (2 ^ IntBits)) + IntMin

Condition(status, reason, message) ==
    [type |-> conditionTypeReady, status |-> status, reason |-> reason, message |-> message]

\* meta.SetStatusCondition: overwrite the condition of the same type, or append
SetStatusCondition(conditions, new) ==
    IF \E i \in DOMAIN conditions : conditions[i].type = new.type
    THEN [i \in DOMAIN conditions |->
            IF conditions[i].type = new.type THEN new ELSE conditions[i]]
    ELSE Append(conditions, new)

\* a check that finds the finalizer whether or not it is there
ContainsFinalizer_always(obj, f) == TRUE

ContainsFinalizer(obj, f) == f \in obj.finalizers

isMarkedForDeletion(obj) == obj.deletionTimestamp

\* The object has the status sub-resource: Status().Update persists the status
\* and nothing else.
StatusUpdate(stored, inmem) == [stored EXCEPT !.conditions = inmem.conditions]

\* Update persists metadata and spec and drops every change to the status.
\* An object marked for deletion whose last finalizer is removed leaves the store.
Update(stored, inmem) ==
    IF stored.deletionTimestamp /\ inmem.finalizers = {}
    THEN Absent
    ELSE [stored EXCEPT !.finalizers = inmem.finalizers, !.spec = inmem.spec]

\* the identity tags first, then the spec tags written over them
makeInstanceTags_specWins(req, specTags) ==
    [t \in DOMAIN specTags \cup {nameTagKey, namespaceTagKey} |->
        IF t \in DOMAIN specTags THEN specTags[t]
        ELSE IF t = namespaceTagKey THEN req.namespace
        ELSE req.name]

\* makeInstanceTags: the spec tags, then the identity tags written over them
makeInstanceTags(req, specTags) ==
    [t \in DOMAIN specTags \cup {nameTagKey, namespaceTagKey} |->
        IF t = namespaceTagKey THEN req.namespace
        ELSE IF t = nameTagKey THEN req.name
        ELSE specTags[t]]

\* the floor applied below 0 instead of below 1
adjustMaxMinInstanceCount_floorZero(current, max, min) ==
    [newMax |-> Wrap(max - current),
     newMin |-> IF Wrap(min - current) < 0 THEN 1 ELSE Wrap(min - current)]

\* the observed count not subtracted from maxCount
adjustMaxMinInstanceCount_noSubtract(current, max, min) ==
    [newMax |-> max,
     newMin |-> IF Wrap(min - current) < 1 THEN 1 ELSE Wrap(min - current)]

adjustMaxMinInstanceCount(current, max, min) ==
    [newMax |-> Wrap(max - current),
     newMin |-> IF Wrap(min - current) < 1 THEN 1 ELSE Wrap(min - current)]

\* ---------------------------------------------------- instance pool client
FilterOptions(matchTags, matchStates) ==
    [MatchTags |-> matchTags, MatchStates |-> matchStates]

\* the match tags with the name alone
IdentityTags_nameOnly(req) == [t \in {nameTagKey} |-> req.name]

IdentityTags(req) ==
    [t \in {nameTagKey, namespaceTagKey} |->
        IF t = nameTagKey THEN req.name ELSE req.namespace]

\* the orders in which a range over a map can visit its keys
Orders(m) == {keys \in [1..Cardinality(DOMAIN m) -> DOMAIN m] : Range(keys) = DOMAIN m}
\* the order of one run; the provider takes the filters together, whatever
\* their order
RECURSIVE KeyOrder(_)
KeyOrder(ks) ==
    IF ks = {} THEN << >>
    ELSE LET k == CHOOSE k \in ks : TRUE IN <<k>> \o KeyOrder(ks \ {k})
MapOrder(m) == KeyOrder(DOMAIN m)

\* toFilters that gives a state filter for the first state only
toFilters_firstStateOnly(f, keys) ==
    [i \in 1..Len(keys) |->
        [Name |-> "tag:" \o keys[i], Key |-> keys[i], Values |-> <<f.MatchTags[keys[i]]>>]]
    \o (IF Len(f.MatchStates) > 0
        THEN <<[Name |-> "instance-state-name", Key |-> "",
                Values |-> <<f.MatchStates[1]>>]>>
        ELSE << >>)

\* FilterOptions.toFilters, the range over MatchTags visiting keys in order:
\* one filter per tag, then one for the states if there are any
toFilters(f, keys) ==
    [i \in 1..Len(keys) |->
        [Name |-> "tag:" \o keys[i], Key |-> keys[i], Values |-> <<f.MatchTags[keys[i]]>>]]
    \o (IF Len(f.MatchStates) > 0
        THEN <<[Name |-> "instance-state-name", Key |-> "", Values |-> f.MatchStates]>>
        ELSE << >>)

\* the provider's DescribeInstances: an instance is returned when every filter
\* names one of its values
MatchesFilter(inst, flt) ==
    IF flt.Name = "instance-state-name"
    THEN \E i \in DOMAIN flt.Values : flt.Values[i] = inst.state
    ELSE /\ flt.Key \in DOMAIN inst.tags
         /\ \E i \in DOMAIN flt.Values : flt.Values[i] = inst.tags[flt.Key]

DescribeInstances(instances, filters) ==
    SelectSeq(instances, LAMBDA inst : \A i \in DOMAIN filters : MatchesFilter(inst, filters[i]))

constructDescribeInstancesInput(filters) == [Filters |-> filters]

\* one response of the provider to a DescribeInstances request: the matching
\* instances after the first nextToken ones, at most pageSize of them, one
\* reservation each, and the token of the next page (0: there is none)
DescribeInstancesOutput(instances, input, pageSize, nextToken) ==
    LET all == DescribeInstances(instances, input.Filters)
        last == IF nextToken + pageSize < Len(all) THEN nextToken + pageSize ELSE Len(all)
    IN [Reservations |-> [i \in 1..(last - nextToken) |-> [Instances |-> <<all[nextToken + i]>>]],
        NextToken |-> IF last < Len(all) THEN last ELSE 0]

\* instances = append(instances, r.Instances...) over the reservations
RECURSIVE AppendReservations(_)
AppendReservations(reservations) ==
    IF reservations = << >> THEN << >>
    ELSE Head(reservations).Instances \o AppendReservations(Tail(reservations))

\* ec2InstanceClient.GetInstances against a provider that answers with pages
\* of pageSize instances: one DescribeInstances call, its reservations
GetInstancesFrom(instances, filterOptions, pageSize) ==
    LET input == constructDescribeInstancesInput(
                     toFilters(filterOptions, MapOrder(filterOptions.MatchTags)))
        output == DescribeInstancesOutput(instances, input, pageSize, 0)
    IN AppendReservations(output.Reservations)

\* the pool of the reconciler model stays below the provider's page limit, so
\* that a list is answered in one page
GetInstances(instances, filterOptions) ==
    GetInstancesFrom(instances, filterOptions, Len(instances) + 1)

InstanceIds(instances) == [i \in DOMAIN instances |-> instances[i].id]

\* the provider's TerminateInstances on the ids the client sends
TerminateInstances(instances, ids) ==
    [i \in DOMAIN instances |->
        IF instances[i].id \in Range(ids)
        THEN [instances[i] EXCEPT !.state = "shutting-down"]
        ELSE instances[i]]

\* the provider's RunInstances: n new pending instances carrying the tags
NewInstances(instances, n, tags) ==
    [i \in 1..n |-> [id |-> Len(instances) + i, state |-> "pending", tags |-> tags]]

\* a successful wait returns when every instance matching the filter is running
WaitUntilRunning(instances, filterOptions) ==
    LET matched == Range(InstanceIds(GetInstances(instances, filterOptions)))
    IN [i \in DOMAIN instances |->
           IF instances[i].id \in matched
           THEN [instances[i] EXCEPT !.state = "running"]
           ELSE instances[i]]

\* ------------------------------------------------------------------- state
\* an instance the neighbouring tenant runs in the same account
ForeignInstance ==
    [id |-> 1, state |-> "running", tags |-> makeInstanceTags(Neighbour, << >>)]

Init ==
    /\ store = [k \in Keys |-> Absent]
    /\ docs = [k \in Keys |-> NoDoc]
    /\ pool = <<ForeignInstance>>
    /\ queue = {}
    /\ pass = NoPass
    /\ served = {}
    /\ probe = NoProbe

\* ------------------------------------------------- users and control plane
\* no pass is being handed back to the work queue
Idle == pass = NoPass

CreateObject(k) ==
    /\ Idle
    /\ ~store[k].present
    /\ \E s \in SpecValues :
        store' = [store EXCEPT ![k] =
            [present |-> TRUE, spec |-> s, conditions |-> << >>,
             finalizers |-> {}, deletionTimestamp |-> FALSE]]
    /\ queue' = queue \cup {k}
    /\ pass' = NoPass
    /\ served' = served \ {k}
    /\ UNCHANGED <<docs, pool, probe>>

UpdateSpec(k) ==
    /\ Idle
    /\ store[k].present
    /\ ~store[k].deletionTimestamp
    /\ \E s \in SpecValues \ {store[k].spec} :
        store' = [store EXCEPT ![k].spec = s]
    /\ queue' = queue \cup {k}
    /\ pass' = NoPass
    /\ UNCHANGED <<docs, pool, served, probe>>

\* a delete request: with a finalizer the object is only marked, without one it
\* leaves the store at once (and its owned document with it)
DeleteObject(k) ==
    /\ Idle
    /\ store[k].present
    /\ ~store[k].deletionTimestamp
    /\ IF store[k].finalizers = {}
       THEN /\ store' = [store EXCEPT ![k] = Absent]
            /\ docs' = [docs EXCEPT ![k] = NoDoc]
            /\ served' = served \ {k}
       ELSE /\ store' = [store EXCEPT ![k].deletionTimestamp = TRUE]
            /\ docs' = docs
            /\ served' = served
    /\ queue' = queue \cup {k}
    /\ pass' = NoPass
    /\ UNCHANGED <<pool, probe>>

\* redelivery of a trigger (resync, coalesced or repeated events)
Resync(k) ==
    /\ Idle
    /\ k \notin queue
    /\ queue' = queue \cup {k}
    /\ pass' = NoPass
    /\ UNCHANGED <<store, docs, pool, served, probe>>

\* the provider finishes booting an instance
InstanceStarts ==
    /\ Idle
    /\ \E i \in DOMAIN pool :
        /\ pool[i].state = "pending"
        /\ pool' = [pool EXCEPT ![i].state = "running"]
    /\ pass' = NoPass
    /\ UNCHANGED <<store, docs, queue, served, probe>>

\* ------------------------------------------------------------- Reconcile
\* the call sites of a pass that can fail; an input names those that do
ProviderSites == {"list", "terminate", "run", "wait", "waitTimeout", "requery", "upsert"}
WriteSites == {"statusUpdate", "update"}
\* the write that reports a failure of the site (a failing write that the pass
\* does not reach changes nothing, so a site is paired with this one only)
ReportingWrite(s) == IF s \in {"terminate", "run"} THEN "update" ELSE "statusUpdate"
FaultSets ==
    {{}} \cup {{s} : s \in ProviderSites \cup WriteSites \cup {"get"}}
         \cup {{s, ReportingWrite(s)} : s \in ProviderSites}

ProviderOps == {"GetInstances", "TerminateInstances", "RunInstances", "WaitUntilRunning"}

\* one call of a pass: what was called, with what, whether it succeeded and
\* what it returned
Call(op, args, ok, ret) == [op |-> op, args |-> args, ok |-> ok, ret |-> ret]

GetCall(k, ok) == Call("Get", k, ok, << >>)

\* what a pass hands back: the provider pool, the calls it made, the in-memory
\* object, the store write it ended with and ctrl.Result / error
Outcome(instances, calls, inmem, write, doc, requeue, err) ==
    [pool |-> instances, calls |-> calls, inmem |-> inmem, write |-> write,
     doc |-> doc, requeue |-> requeue, err |-> err]

\* return ctrl.Result{Requeue: requeue}, r.Status().Update(ctx, ec2Instance)
ReturnStatusUpdate(instances, calls, inmem, doc, requeue, failing) ==
    Outcome(instances,
            Append(calls, Call("StatusUpdate", inmem.conditions,
                               "statusUpdate" \notin failing, << >>)),
            inmem,
            IF "statusUpdate" \in failing THEN "none" ELSE "status",
            doc, requeue, "statusUpdate" \in failing)

\* return ctrl.Result{Requeue: requeue}, r.Update(ctx, ec2Instance)
ReturnUpdate(instances, calls, inmem, doc, requeue, failing) ==
    Outcome(instances,
            Append(calls, Call("Update", inmem.finalizers, "update" \notin failing, << >>)),
            inmem,
            IF "update" \in failing THEN "none" ELSE "update",
            doc, requeue, "update" \in failing)

\* return ctrl.Result{}, err
ReturnError(instances, calls, inmem, doc) ==
    Outcome(instances, calls, inmem, "none", doc, FALSE, TRUE)

WithCondition(obj, status, reason, message) ==
    [obj EXCEPT !.conditions =
        SetStatusCondition(obj.conditions, Condition(status, reason, message))]

\* the writes of a pass reach the store, and every change of the object or of
\* the document it owns, an error and a requeue put the key back on the queue
Commit(k, branch, out) ==
    LET obj == store[k]
        stored == IF out.write = "status" THEN StatusUpdate(obj, out.inmem)
                  ELSE IF out.write = "update" THEN Update(obj, out.inmem)
                  ELSE obj
        doc == IF stored.present THEN out.doc ELSE NoDoc
    IN /\ store' = [store EXCEPT ![k] = stored]
       /\ docs' = [docs EXCEPT ![k] = doc]
       /\ pool' = out.pool
       /\ pass' = [branch |-> branch, key |-> k, calls |-> out.calls,
                   requeue |-> out.requeue, err |-> out.err]
       /\ queue' = (queue \ {k}) \cup
                   (IF out.requeue \/ out.err \/ stored # obj \/ doc # docs[k]
                    THEN {k} ELSE {})
       /\ served' = IF ~stored.present THEN served \ {k}
                    ELSE IF \E i \in DOMAIN out.calls : out.calls[i].op \in ProviderOps
                    THEN served \cup {k}
                    ELSE served
       /\ UNCHANGED probe

\* r.Client.Get fails with an error other than not-found
ReconcileGetFailed(k) ==
    /\ Idle
    /\ k \in queue
    /\ Commit(k, "getFailed",
              ReturnError(pool, <<GetCall(k, FALSE)>>, store[k], docs[k]))

\* a not-found error handed back to the caller like any other error
ReconcileNotFound_asError(k) ==
    /\ Idle
    /\ k \in queue
    /\ ~store[k].present
    /\ Commit(k, "notFound", ReturnError(pool, <<GetCall(k, TRUE)>>, store[k], docs[k]))

\* the key names no object
ReconcileNotFound(k) ==
    /\ Idle
    /\ k \in queue
    /\ ~store[k].present
    /\ Commit(k, "notFound",
              Outcome(pool, <<GetCall(k, TRUE)>>, store[k], "none", docs[k], FALSE, FALSE))

\* no condition recorded yet: write Unknown/Reconciling and stop
ReconcileInitStatus(k) ==
    /\ Idle
    /\ k \in queue
    /\ store[k].present
    /\ Len(store[k].conditions) = 0
    /\ \E failing \in {{}, {"statusUpdate"}} :
        Commit(k, "initStatus",
               ReturnStatusUpdate(pool, <<GetCall(k, TRUE)>>,
                   WithCondition(store[k], "Unknown", "Reconciling", "Initial reconciliation"),
                   docs[k], FALSE, failing))

\* the finalizer is absent: add it and stop
ReconcileAddFinalizer(k) ==
    /\ Idle
    /\ k \in queue
    /\ store[k].present
    /\ Len(store[k].conditions) # 0
    /\ ~ContainsFinalizer(store[k], ec2InstanceFinalizer)
    /\ \E failing \in {{}, {"update"}} :
        Commit(k, "addFinalizer",
               ReturnUpdate(pool, <<GetCall(k, TRUE)>>,
                   [store[k] EXCEPT !.finalizers = @ \cup {ec2InstanceFinalizer}],
                   docs[k], FALSE, failing))

\* the cleanup list restricted to the instances still pending or running
IdentityFilter_liveOnly(k) == FilterOptions(IdentityTags(k), <<"pending", "running">>)

IdentityFilter(k) == FilterOptions(IdentityTags(k), << >>)
\* the first list that leaves out the instances still pending
PendingRunningFilter_runningOnly(k) == FilterOptions(IdentityTags(k), <<"running">>)

PendingRunningFilter(k) == FilterOptions(IdentityTags(k), <<"pending", "running">>)
\* the requery that still asks for pending instances
RunningFilter_withPending(k) == FilterOptions(IdentityTags(k), <<"pending", "running">>)

RunningFilter(k) == FilterOptions(IdentityTags(k), <<"running">>)

\* doFinalizerOperations that logs a failed terminate call and carries on
doFinalizerOperations_ignoreTerminateError(k, instances, failing) ==
    LET fo == IdentityFilter(k)
        ids == InstanceIds(GetInstances(instances, fo))
    IN IF "list" \in failing
       THEN [err |-> TRUE, pool |-> instances,
             calls |-> <<Call("GetInstances", fo, FALSE, << >>)>>]
       ELSE IF "terminate" \in failing
       THEN [err |-> FALSE, pool |-> instances,
             calls |-> <<Call("GetInstances", fo, TRUE, ids),
                         Call("TerminateInstances", ids, FALSE, << >>)>>]
       ELSE [err |-> FALSE, pool |-> TerminateInstances(instances, ids),
             calls |-> <<Call("GetInstances", fo, TRUE, ids),
                         Call("TerminateInstances", ids, TRUE, << >>)>>]

\* doFinalizerOperations that lists only the pending and running instances
doFinalizerOperations_liveOnly(k, instances, failing) ==
    LET fo == PendingRunningFilter(k)
        ids == InstanceIds(GetInstances(instances, fo))
    IN IF "list" \in failing
       THEN [err |-> TRUE, pool |-> instances,
             calls |-> <<Call("GetInstances", fo, FALSE, << >>)>>]
       ELSE IF "terminate" \in failing
       THEN [err |-> TRUE, pool |-> instances,
             calls |-> <<Call("GetInstances", fo, TRUE, ids),
                         Call("TerminateInstances", ids, FALSE, << >>)>>]
       ELSE [err |-> FALSE, pool |-> TerminateInstances(instances, ids),
             calls |-> <<Call("GetInstances", fo, TRUE, ids),
                         Call("TerminateInstances", ids, TRUE, << >>)>>]

\* doFinalizerOperations: list by the identity tags alone, terminate all
doFinalizerOperations(k, instances, failing) ==
    LET fo == IdentityFilter(k)
        ids == InstanceIds(GetInstances(instances, fo))
    IN IF "list" \in failing
       THEN [err |-> TRUE, pool |-> instances,
             calls |-> <<Call("GetInstances", fo, FALSE, << >>)>>]
       ELSE IF "terminate" \in failing
       THEN [err |-> TRUE, pool |-> instances,
             calls |-> <<Call("GetInstances", fo, TRUE, ids),
                         Call("TerminateInstances", ids, FALSE, << >>)>>]
       ELSE [err |-> FALSE, pool |-> TerminateInstances(instances, ids),
             calls |-> <<Call("GetInstances", fo, TRUE, ids),
                         Call("TerminateInstances", ids, TRUE, << >>)>>]

\* marked for deletion with the finalizer present
ReconcileDelete(k) ==
    /\ Idle
    /\ k \in queue
    /\ store[k].present
    /\ Len(store[k].conditions) # 0
    /\ ContainsFinalizer(store[k], ec2InstanceFinalizer)
    /\ isMarkedForDeletion(store[k])
    /\ \E failing \in {{}, {"list"}, {"terminate"}, {"update"}} :
        LET fin == doFinalizerOperations(k, pool, failing)
            calls == <<GetCall(k, TRUE)>> \o fin.calls
        IN Commit(k, "delete",
               IF fin.err
               THEN ReturnError(fin.pool, calls, store[k], docs[k])
               ELSE ReturnUpdate(fin.pool, calls,
                        [store[k] EXCEPT !.finalizers = @ \ {ec2InstanceFinalizer}],
                        docs[k], FALSE, failing))

constructStateDeclarationData(obj, instances) ==
    [instances |-> instances, spec |-> obj.spec]

\* controllerutil.CreateOrUpdate of the StateDeclaration: created with the
\* controller reference when absent, otherwise only its data is overwritten
CreateOrUpdate(doc, k, data) ==
    IF doc.present
    THEN [doc EXCEPT !.data = data]
    ELSE [present |-> TRUE, name |-> "ec2-" \o k.name, namespace |-> k.namespace,
          owner |-> k, data |-> data]

\* the numbers of instances the provider can create for a request; none when
\* the range is empty or its capacity is used up
Creatable(instances, newMax, newMin) ==
    {n \in 1..MaxInstances :
        newMin <= n /\ n <= newMax /\ Len(instances) + n <= MaxInstances}

\* if len(instances) > ec2Instance.Spec.MaxCount
ScaleDownNeeded(count, maxCount) == count > maxCount

\* the tail of the list instead of its head
ScaleDownVictims_tail(instances, maxCount) ==
    SubSeq(instances, maxCount + 1, Len(instances))

\* instances[:terminationCount]
ScaleDownVictims(instances, maxCount) ==
    SubSeq(instances, 1, Len(instances) - maxCount)

\* scale-up entered also when the count already equals maxCount
ScaleUpNeeded_orEqual(count, maxCount) == count <= maxCount

\* if len(instances) < ec2Instance.Spec.MaxCount
ScaleUpNeeded(count, maxCount) == count < maxCount

\* steady reconciliation, from the first GetInstances to the final status
\* write, for the counts and tags the pass applies; failing names the calls
\* that fail, created the number of instances the provider starts
SteadyPassFor(k, obj, maxCount, minCount, specTags, doc, instances0, failing, created) ==
    LET fPR == PendingRunningFilter(k)
        fR == RunningFilter(k)
        get == <<GetCall(k, TRUE)>>
        instances == GetInstances(instances0, fPR)
        victims == InstanceIds(ScaleDownVictims(instances, maxCount))
        scaleDown == ScaleDownNeeded(Len(instances), maxCount)
        scaleUp == ScaleUpNeeded(Len(instances), maxCount)
        adj == adjustMaxMinInstanceCount(Len(instances), maxCount, minCount)
        tags == makeInstanceTags(k, specTags)
        runArgs == [MaxCount |-> adj.newMax, MinCount |-> adj.newMin, Tags |-> tags]
        waitArgs == [filter |-> fPR, timeout |-> WaitTimeout]
        runFails == "run" \in failing \/ created \notin Creatable(instances0, adj.newMax, adj.newMin)
        waitFails == "wait" \in failing \/ "waitTimeout" \in failing
        waitErr == IF "waitTimeout" \in failing THEN "exceeded max wait time" ELSE "provider error"
        c1 == Append(get, Call("GetInstances", fPR, TRUE, InstanceIds(instances)))
        c2 == IF scaleDown THEN Append(c1, Call("TerminateInstances", victims, TRUE, << >>)) ELSE c1
        pool2 == IF scaleDown THEN TerminateInstances(instances0, victims) ELSE instances0
        c3 == IF scaleUp THEN Append(c2, Call("RunInstances", runArgs, TRUE, created)) ELSE c2
        pool3 == IF scaleUp THEN pool2 \o NewInstances(pool2, created, tags) ELSE pool2
        c4 == IF scaleUp THEN Append(c3, Call("WaitUntilRunning", waitArgs, TRUE, << >>)) ELSE c3
        pool4 == IF scaleUp THEN WaitUntilRunning(pool3, fPR) ELSE pool3
        running == GetInstances(pool4, fR)
        c5 == Append(c4, Call("GetInstances", fR, TRUE, InstanceIds(running)))
        data == constructStateDeclarationData(obj, running)
    IN
    IF "list" \in failing THEN
        ReturnStatusUpdate(instances0, Append(get, Call("GetInstances", fPR, FALSE, << >>)),
            WithCondition(obj, "Unknown", "RetrievalFailed", "Failed to retrieve EC2 instances"),
            doc, TRUE, failing)
    ELSE IF scaleDown /\ "terminate" \in failing THEN
        ReturnUpdate(instances0, Append(c1, Call("TerminateInstances", victims, FALSE, << >>)),
            WithCondition(obj, "False", "TerminateFailed", "Failed to scale down EC2 instances"),
            doc, TRUE, failing)
    ELSE IF scaleUp /\ runFails THEN
        ReturnUpdate(pool2, Append(c2, Call("RunInstances", runArgs, FALSE, 0)),
            WithCondition(obj, "False", "RunFailed", "Failed to scale up EC2 instances"),
            doc, TRUE, failing)
    ELSE IF scaleUp /\ waitFails THEN
        ReturnStatusUpdate(pool3, Append(c3, Call("WaitUntilRunning", waitArgs, FALSE, << >>)),
            WithCondition(obj, "False", "WaitForRunningError",
                "Encountered error waiting for running state: " \o waitErr),
            doc, TRUE, failing)
    ELSE IF "requery" \in failing THEN
        ReturnStatusUpdate(pool4, Append(c4, Call("GetInstances", fR, FALSE, << >>)),
            WithCondition(obj, "Unknown", "RetrievalFailed", "Failed to retrieve EC2 instances"),
            doc, TRUE, failing)
    ELSE IF "upsert" \in failing THEN
        ReturnStatusUpdate(pool4, Append(c5, Call("CreateOrUpdate", data, FALSE, << >>)),
            WithCondition(obj, "False", "StateDeclarationError",
                "Failed to create/update StateDeclaration"),
            doc, FALSE, failing)
    ELSE
        ReturnStatusUpdate(pool4, Append(c5, Call("CreateOrUpdate", data, TRUE, << >>)),
            WithCondition(obj, "True", "Reconciled", "Desired state has been reached"),
            CreateOrUpdate(doc, k, data), FALSE, failing)

\* the pass on the counts and tags the object's spec states
SteadyPass(k, obj, doc, instances0, failing, created) ==
    SteadyPassFor(k, obj, obj.spec.maxCount, obj.spec.minCount, obj.spec.tags,
                  doc, instances0, failing, created)

\* the numbers of created instances the provider may answer a pass with
CreatedChoicesFor(k, maxCount, minCount) ==
    LET n == Len(GetInstances(pool, PendingRunningFilter(k)))
        adj == adjustMaxMinInstanceCount(n, maxCount, minCount)
        can == Creatable(pool, adj.newMax, adj.newMin)
    IN IF n < maxCount /\ can # {} THEN can ELSE {0}
CreatedChoices(k) == CreatedChoicesFor(k, store[k].spec.maxCount, store[k].spec.minCount)

ReconcileSteady(k) ==
    /\ Idle
    /\ k \in queue
    /\ store[k].present
    /\ Len(store[k].conditions) # 0
    /\ ContainsFinalizer(store[k], ec2InstanceFinalizer)
    /\ ~isMarkedForDeletion(store[k])
    /\ \E failing \in FaultSets \ {{"get"}} : \E created \in CreatedChoices(k) :
        Commit(k, "steady", SteadyPass(k, store[k], docs[k], pool, failing, created))

\* the worker takes the result of the pass and is free for the next step
PassReturns ==
    /\ ~Idle
    /\ pass' = NoPass
    /\ UNCHANGED <<store, docs, pool, queue, served, probe>>

Reconcile(k) ==
    \/ ReconcileGetFailed(k)
    \/ ReconcileNotFound(k)
    \/ ReconcileInitStatus(k)
    \/ ReconcileAddFinalizer(k)
    \/ ReconcileDelete(k)
    \/ ReconcileSteady(k)

Next ==
    \/ CreateObject(Tenant)
    \/ UpdateSpec(Tenant)
    \/ DeleteObject(Tenant)
    \/ Resync(Tenant)
    \/ InstanceStarts
    \/ Reconcile(Tenant)
    \/ PassReturns

Spec == Init /\ [][Next]_vars

\* ------------------------------------------------- arithmetic probe
\* adjustMaxMinInstanceCount applied to every triple of machine integers
InitAdjust ==
    /\ store = [k \in Keys |-> Absent]
    /\ docs = [k \in Keys |-> NoDoc]
    /\ pool = <<ForeignInstance>>
    /\ queue = {}
    /\ pass = NoPass
    /\ served = {}
    /\ probe \in [op : {"input"}, current : Ints, max : Ints, min : Ints]

ApplyAdjust ==
    /\ probe.op = "input"
    /\ probe' = [op |-> "adjust", current |-> probe.current, max |-> probe.max,
                 min |-> probe.min,
                 result |-> adjustMaxMinInstanceCount(probe.current, probe.max, probe.min)]
    /\ UNCHANGED ctrlVars

NextAdjust == ApplyAdjust

SpecAdjust == InitAdjust /\ [][NextAdjust]_vars

\* ------------------------------------------------------------ list probe
\* GetInstances against every small pool, for the filters Reconcile uses and
\* every page size of the provider
ProbeInstance(i) ==
    [id : {i}, state : {"pending", "running", "terminated"},
     tags : {makeInstanceTags(Tenant, << >>), makeInstanceTags(Neighbour, << >>)}]

ProbePools ==
    UNION {{p \in [1..n -> UNION {ProbeInstance(i) : i \in 1..n}] :
                \A i \in 1..n : p[i].id = i} : n \in 0..MaxInstances}

InitPaging ==
    /\ store = [k \in Keys |-> Absent]
    /\ docs = [k \in Keys |-> NoDoc]
    /\ pool \in ProbePools
    /\ queue = {}
    /\ pass = NoPass
    /\ served = {}
    /\ probe \in [op : {"input"},
                  filter : {IdentityFilter(Tenant), PendingRunningFilter(Tenant),
                            RunningFilter(Tenant)},
                  pageSize : 1..MaxPageSize]

ApplyGetInstances ==
    /\ probe.op = "input"
    /\ probe' = [op |-> "list", filter |-> probe.filter, pageSize |-> probe.pageSize,
                 result |-> GetInstancesFrom(pool, probe.filter, probe.pageSize)]
    /\ UNCHANGED ctrlVars

NextPaging == ApplyGetInstances

SpecPaging == InitPaging /\ [][NextPaging]_vars

\* ---------------------------------------------------------- filter probe
\* toFilters applied to every small FilterOptions and every order of its tags
TagKeyPool == <<"a", "b", "c", "d">>
TagKeys == {TagKeyPool[i] : i \in 1..MaxTags}
MatchTagsValues == UNION {[ks -> {"1", "2"}] : ks \in SUBSET TagKeys}
MatchStatesValues ==
    UNION {[1..n -> {"pending", "running", "stopped"}] : n \in 0..MaxMatchStates}

InitFilters ==
    /\ store = [k \in Keys |-> Absent]
    /\ docs = [k \in Keys |-> NoDoc]
    /\ pool = <<ForeignInstance>>
    /\ queue = {}
    /\ pass = NoPass
    /\ served = {}
    /\ \E tags \in MatchTagsValues, states \in MatchStatesValues :
         \E keys \in Orders(tags) :
            probe = [op |-> "input", filter |-> FilterOptions(tags, states), keys |-> keys]

ApplyToFilters ==
    /\ probe.op = "input"
    /\ probe' = [op |-> "filters", filter |-> probe.filter, keys |-> probe.keys,
                 result |-> toFilters(probe.filter, probe.keys)]
    /\ UNCHANGED ctrlVars

NextFilters == ApplyToFilters

SpecFilters == InitFilters /\ [][NextFilters]_vars

\* ---------------------------------------------------------- package option
\* a nil pointer, and a pointer to v
Nil == [nil |-> TRUE]
Ptr(v) == [nil |-> FALSE, v |-> v]

NoErr == [kind |-> "nil"]
\* what a call hands back: it panics, or returns (val, err)
Return(val, err) == [panic |-> FALSE, val |-> val, err |-> err]
Panic == [panic |-> TRUE, val |-> Nil, err |-> NoErr]

ValueFromConfigMap(name, key) == [Name |-> name, Key |-> key]
ValueFromSecret(name, key) == [Name |-> name, Key |-> key]
ValueFromKrakenResource(kind, name, path) == [Kind |-> kind, Name |-> name, Path |-> path]
ValueFrom(configMap, secret, krakenResource) ==
    [ConfigMap |-> configMap, Secret |-> secret, KrakenResource |-> krakenResource]

AbsVal(n) == IF n < 0 THEN -n ELSE n

\* strconv.Atoi on a string given as its characters: an optional sign, then
\* one or more decimal digits, and the value has to fit the int
Digits == <<"0", "1", "2", "3", "4", "5", "6", "7", "8", "9">>
DigitValue(c) == (CHOOSE i \in DOMAIN Digits : Digits[i] = c) - 1
RECURSIVE DigitsValue(_)
DigitsValue(cs) ==
    IF cs = << >> THEN 0
    ELSE 10 * DigitsValue(SubSeq(cs, 1, Len(cs) - 1)) + DigitValue(cs[Len(cs)])
Atoi(str) ==
    LET signed == str # << >> /\ str[1] \in {"+", "-"}
        digits == IF signed THEN Tail(str) ELSE str
        value == IF signed /\ str[1] = "-" THEN -DigitsValue(digits) ELSE DigitsValue(digits)
    IN IF digits = << >> \/ \E i \in DOMAIN digits : digits[i] \notin Range(Digits)
       THEN Return(Nil, [kind |-> "atoi", cause |-> "invalid syntax"])
       ELSE IF value \notin Ints
       THEN Return(Nil, [kind |-> "atoi", cause |-> "value out of range"])
       ELSE Return(Ptr(value), NoErr)

\* the float64 nearest to a number given in halves, in halves: numbers of up
\* to MantBits bits are exact, larger ones are rounded to MantBits bits, a tie
\* to the even neighbour
RECURSIVE FloatStep(_)
FloatStep(n) == IF n < 2 ^ MantBits THEN 1 ELSE 2 * FloatStep(n \div 2)
ParseFloat(halves) ==
    LET n == AbsVal(halves)
        step == FloatStep(n)
        lower == (n \div step) * step
        upper == lower + step
        near == IF n - lower < upper - n THEN lower
                ELSE IF n - lower > upper - n THEN upper
                ELSE IF (lower \div step) % 2 = 0 THEN lower ELSE upper
    IN IF halves < 0 THEN -near ELSE near

\* int(f): the fraction is discarded; the result for a float beyond the int
\* depends on the build, outOfRange stands for what this build gives
IntOfFloat_floor(f, outOfRange) ==
    LET t == f \div 2
    IN IF t \in Ints THEN t ELSE outOfRange
IntOfFloat(f, outOfRange) ==
    LET t == IF f < 0 THEN -(AbsVal(f) \div 2) ELSE f \div 2
    IN IF t \in Ints THEN t ELSE outOfRange

\* gabs.ParseJSON and Container.Data: the Go value json.Unmarshal builds for
\* the payload, or an error for a payload that is not JSON
ParseJSON(raw) ==
    CASE raw.json = "invalid" -> Return(Nil, [kind |-> "parse"])
      [] raw.json = "null" -> Return([go |-> "nil"], NoErr)
      [] raw.json = "bool" -> Return([go |-> "bool", v |-> raw.b], NoErr)
      [] raw.json = "string" -> Return([go |-> "string", v |-> raw.v], NoErr)
      [] raw.json = "number" -> Return([go |-> "float64", v |-> ParseFloat(raw.halves)], NoErr)
      [] raw.json = "object" -> Return([go |-> "map"], NoErr)
      [] raw.json = "array" -> Return([go |-> "slice"], NoErr)

getValueFromConfigMap_generic(cmRef, cmVals) ==
    IF cmRef.Name \notin DOMAIN cmVals \/ cmRef.Key \notin DOMAIN cmVals[cmRef.Name]
    THEN Return(Nil, [kind |-> "lookup", level |-> "", name |-> ""])
    ELSE Return(Ptr(cmVals[cmRef.Name][cmRef.Key]), NoErr)
getValueFromConfigMap(cmRef, cmVals) ==
    IF cmRef.Name \notin DOMAIN cmVals
    THEN Return(Nil, [kind |-> "lookup", level |-> "ConfigMap", name |-> cmRef.Name])
    ELSE IF cmRef.Key \notin DOMAIN cmVals[cmRef.Name]
    THEN Return(Nil, [kind |-> "lookup", level |-> "key", name |-> cmRef.Key])
    ELSE Return(Ptr(cmVals[cmRef.Name][cmRef.Key]), NoErr)

\* getValueFromKrakenResource[T], T given by its reflect.Kind
getValueFromKrakenResource(T, krRef, krVals) ==
    IF krRef.Kind \notin DOMAIN krVals
    THEN Return(Nil, [kind |-> "lookup", level |-> "kind", name |-> krRef.Kind])
    ELSE IF krRef.Name \notin DOMAIN krVals[krRef.Kind]
    THEN Return(Nil, [kind |-> "lookup", level |-> "resource", name |-> krRef.Name])
    ELSE IF krRef.Path \notin DOMAIN krVals[krRef.Kind][krRef.Name]
    THEN Return(Nil, [kind |-> "lookup", level |-> "path", name |-> krRef.Path])
    ELSE LET parsed == ParseJSON(krVals[krRef.Kind][krRef.Name][krRef.Path])
             data == parsed.val
         IN IF parsed.err # NoErr THEN Return(Nil, parsed.err)
            \* reflect.TypeOf(nil) is nil, and Kind() on it panics
            ELSE IF data.go = "nil" THEN Panic
            ELSE IF data.go # T
            THEN Return(Nil, [kind |-> "wrongShape", expected |-> T, actual |-> data.go])
            ELSE Return(Ptr(data.v), NoErr)

NoReferenceError ==
    [kind |-> "other",
     message |-> "ValueFrom object is not nil but does not contain any non-nil pointer references"]

\* String.ToApplicableValue
StringToApplicableValue_referenceFirst(s, dv) ==
    IF s.ValueFrom = Nil
    THEN IF s.Value # Nil THEN Return(s.Value, NoErr) ELSE Return(Nil, NoErr)
    ELSE IF s.ValueFrom.v.ConfigMap # Nil
    THEN getValueFromConfigMap(s.ValueFrom.v.ConfigMap.v, dv.FromConfigMaps)
    ELSE IF s.ValueFrom.v.KrakenResource # Nil
    THEN getValueFromKrakenResource("string", s.ValueFrom.v.KrakenResource.v,
                                    dv.FromKrakenResources)
    ELSE Return(Nil, NoReferenceError)
StringToApplicableValue(s, dv) ==
    IF s.Value # Nil THEN Return(s.Value, NoErr)
    ELSE IF s.ValueFrom = Nil THEN Return(Nil, NoErr)
    ELSE IF s.ValueFrom.v.ConfigMap # Nil
    THEN getValueFromConfigMap(s.ValueFrom.v.ConfigMap.v, dv.FromConfigMaps)
    ELSE IF s.ValueFrom.v.KrakenResource # Nil
    THEN getValueFromKrakenResource("string", s.ValueFrom.v.KrakenResource.v,
                                    dv.FromKrakenResources)
    ELSE Return(Nil, NoReferenceError)

\* Int.ToApplicableValue
IntToApplicableValue(i, dv, outOfRange) ==
    IF i.Value # Nil THEN Return(i.Value, NoErr)
    ELSE IF i.ValueFrom = Nil THEN Return(Nil, NoErr)
    ELSE IF i.ValueFrom.v.ConfigMap # Nil
    THEN LET valString == getValueFromConfigMap(i.ValueFrom.v.ConfigMap.v, dv.FromConfigMaps)
         IN IF valString.err # NoErr THEN Return(Nil, valString.err)
            ELSE Atoi(valString.val.v)
    ELSE IF i.ValueFrom.v.KrakenResource # Nil
    THEN LET valFloat == getValueFromKrakenResource("float64", i.ValueFrom.v.KrakenResource.v,
                                                    dv.FromKrakenResources)
         IN IF valFloat.panic THEN Panic
            ELSE IF valFloat.err # NoErr THEN Return(Nil, valFloat.err)
            ELSE Return(Ptr(IntOfFloat(valFloat.val.v, outOfRange)), NoErr)
    ELSE Return(Nil, NoReferenceError)

\* ValueFrom.AddToDependencyRequestSpec: the request with the dependencies of
\* one reference appended
AddToDependencyRequestSpec(vf, dr, kind) ==
    LET dr1 == IF vf.KrakenResource # Nil
               THEN [dr EXCEPT !.KrakenResourceDependencies =
                        Append(@, [Kind |-> vf.KrakenResource.v.Kind,
                                   Name |-> vf.KrakenResource.v.Name,
                                   Path |-> vf.KrakenResource.v.Path,
                                   ReflectKind |-> kind])]
               ELSE dr
        dr2 == IF vf.ConfigMap # Nil
               THEN [dr1 EXCEPT !.ConfigMapDependencies =
                        Append(@, [Name |-> vf.ConfigMap.v.Name, Key |-> vf.ConfigMap.v.Key])]
               ELSE dr1
    IN IF vf.Secret # Nil THEN Panic ELSE Return(dr2, NoErr)

\* EC2InstanceSpec.GenerateDependencyRequestSpec
GenerateDependencyRequestSpec(s) ==
    LET add(prev, opt, kind) ==
            IF prev.panic \/ opt.ValueFrom = Nil THEN prev
            ELSE AddToDependencyRequestSpec(opt.ValueFrom.v, prev.val, kind)
        dr == Return([KrakenResourceDependencies |-> << >>, ConfigMapDependencies |-> << >>],
                     NoErr)
    IN add(add(add(add(dr, s.ImageID, "string"), s.InstanceType, "string"),
               s.MaxCount, "int"), s.MinCount, "int")

\* ------------------------------------------------------------ option probe
\* the options, snapshots and specs the resolver and the request builder are
\* applied to
StringLiterals == {Nil, Ptr(<<"a", "m", "i">>)}
IntLiterals == {Nil, Ptr(3), Ptr(IntMin)}
ValueFroms ==
    {Nil} \cup
    {Ptr(ValueFrom(c, s, k)) :
        c \in {Nil, Ptr(ValueFromConfigMap("cm", "k"))},
        s \in {Nil, Ptr(ValueFromSecret("sec", "k"))},
        k \in {Nil, Ptr(ValueFromKrakenResource("Vpc", "main", "id"))}}
StringOptions == [Value : StringLiterals, ValueFrom : ValueFroms]
IntOptions == [Value : IntLiterals, ValueFrom : ValueFroms]

ConfigStrings == {<<"3">>, <<"-", "2">>, <<"a">>, << >>, <<"9", "9">>}
FromConfigMapsValues ==
    {<< >>, [n \in {"cm"} |-> << >>]} \cup
    {[n \in {"cm"} |-> [k \in {"k"} |-> str]] : str \in ConfigStrings}

RawPayloads ==
    {[json |-> "invalid"], [json |-> "null"], [json |-> "bool", b |-> TRUE],
     [json |-> "string", v |-> <<"a">>], [json |-> "string", v |-> <<"3">>],
     [json |-> "object"], [json |-> "array"]} \cup
    {[json |-> "number", halves |-> n] : n \in (2 * IntMin - 3)..(2 * IntMax + 3)}
FromKrakenResourcesValues ==
    {<< >>, [c \in {"Vpc"} |-> << >>], [c \in {"Vpc"} |-> [n \in {"main"} |-> << >>]]} \cup
    {[c \in {"Vpc"} |-> [n \in {"main"} |-> [q \in {"id"} |-> raw]]] : raw \in RawPayloads}
DependentValues ==
    [FromConfigMaps : FromConfigMapsValues, FromKrakenResources : FromKrakenResourcesValues]

ResolveInputs ==
    [op : {"input"}, kind : {"string"}, option : StringOptions, dv : DependentValues,
     outOfRange : {IntMin}] \cup
    [op : {"input"}, kind : {"int"}, option : IntOptions, dv : DependentValues,
     outOfRange : {IntMin, IntMax}]
RequestInputs ==
    [op : {"spec"},
     spec : [ImageID : [Value : {Nil}, ValueFrom : ValueFroms],
             InstanceType : [Value : {Ptr(<<"t", "2">>)}, ValueFrom : {Nil, Ptr(ValueFrom(Nil, Ptr(ValueFromSecret("sec", "k")), Nil))}],
             MaxCount : [Value : {Nil}, ValueFrom : ValueFroms],
             MinCount : [Value : {Ptr(1)}, ValueFrom : {Nil, Ptr(ValueFrom(Ptr(ValueFromConfigMap("cm", "k")), Nil, Nil))}]]]

InitOption ==
    /\ store = [k \in Keys |-> Absent]
    /\ docs = [k \in Keys |-> NoDoc]
    /\ pool = <<ForeignInstance>>
    /\ queue = {}
    /\ pass = NoPass
    /\ served = {}
    /\ probe \in ResolveInputs \cup RequestInputs

ApplyToApplicableValue ==
    /\ probe.op = "input"
    /\ probe' = [op |-> "resolve", kind |-> probe.kind, option |-> probe.option,
                 dv |-> probe.dv, outOfRange |-> probe.outOfRange,
                 result |-> IF probe.kind = "string"
                            THEN StringToApplicableValue(probe.option, probe.dv)
                            ELSE IntToApplicableValue(probe.option, probe.dv,
                                                      probe.outOfRange)]
    /\ UNCHANGED ctrlVars

ApplyGenerateDependencyRequestSpec ==
    /\ probe.op = "spec"
    /\ probe' = [op |-> "request", spec |-> probe.spec,
                 result |-> GenerateDependencyRequestSpec(probe.spec)]
    /\ UNCHANGED ctrlVars

NextOption ==
    \/ ApplyToApplicableValue
    \/ ApplyGenerateDependencyRequestSpec

SpecOption == InitOption /\ [][NextOption]_vars

\* ------------------------------------------------------ value resolution
NoValueError(field) ==
    [kind |-> "other", message |-> "no applicable value provided for " \o field]

\* toApplicableValues that applies the zero value for an ImageID without value
toApplicableValues_emptyImageID(ec2Spec, depValues, outOfRange) ==
    LET imageID == StringToApplicableValue(ec2Spec.ImageID, depValues)
        instanceType == StringToApplicableValue(ec2Spec.InstanceType, depValues)
        maxCount == IntToApplicableValue(ec2Spec.MaxCount, depValues, outOfRange)
        minCount == IntToApplicableValue(ec2Spec.MinCount, depValues, outOfRange)
    IN IF imageID.panic THEN Panic
       ELSE IF imageID.err # NoErr THEN Return(Nil, imageID.err)
       ELSE IF instanceType.panic THEN Panic
       ELSE IF instanceType.err # NoErr THEN Return(Nil, instanceType.err)
       ELSE IF instanceType.val = Nil THEN Return(Nil, NoValueError("InstanceType"))
       ELSE IF maxCount.panic THEN Panic
       ELSE IF maxCount.err # NoErr THEN Return(Nil, maxCount.err)
       ELSE IF maxCount.val = Nil THEN Return(Nil, NoValueError("MaxCount"))
       ELSE IF minCount.panic THEN Panic
       ELSE IF minCount.err # NoErr THEN Return(Nil, minCount.err)
       ELSE IF minCount.val = Nil THEN Return(Nil, NoValueError("MinCount"))
       ELSE Return(Ptr([imageID |-> IF imageID.val = Nil THEN << >> ELSE imageID.val.v,
                        instanceType |-> instanceType.val.v,
                        maxCount |-> maxCount.val.v, minCount |-> minCount.val.v]), NoErr)

\* toApplicableValues: the four options resolved in order; the first failure
\* or missing value ends it with an error and a nil result
toApplicableValues(ec2Spec, depValues, outOfRange) ==
    LET imageID == StringToApplicableValue(ec2Spec.ImageID, depValues)
        instanceType == StringToApplicableValue(ec2Spec.InstanceType, depValues)
        maxCount == IntToApplicableValue(ec2Spec.MaxCount, depValues, outOfRange)
        minCount == IntToApplicableValue(ec2Spec.MinCount, depValues, outOfRange)
    IN IF imageID.panic THEN Panic
       ELSE IF imageID.err # NoErr THEN Return(Nil, imageID.err)
       ELSE IF imageID.val = Nil THEN Return(Nil, NoValueError("ImageID"))
       ELSE IF instanceType.panic THEN Panic
       ELSE IF instanceType.err # NoErr THEN Return(Nil, instanceType.err)
       ELSE IF instanceType.val = Nil THEN Return(Nil, NoValueError("InstanceType"))
       ELSE IF maxCount.panic THEN Panic
       ELSE IF maxCount.err # NoErr THEN Return(Nil, maxCount.err)
       ELSE IF maxCount.val = Nil THEN Return(Nil, NoValueError("MaxCount"))
       ELSE IF minCount.panic THEN Panic
       ELSE IF minCount.err # NoErr THEN Return(Nil, minCount.err)
       ELSE IF minCount.val = Nil THEN Return(Nil, NoValueError("MinCount"))
       ELSE Return(Ptr([imageID |-> imageID.val.v, instanceType |-> instanceType.val.v,
                        maxCount |-> maxCount.val.v, minCount |-> minCount.val.v]), NoErr)

\* the specs and dependency snapshots of the resolving controller: literals,
\* options without a value, references that the snapshot answers or not
ConfigMapReference == Ptr(ValueFrom(Ptr(ValueFromConfigMap("cm", "k")), Nil, Nil))
KrakenReference == Ptr(ValueFrom(Nil, Nil, Ptr(ValueFromKrakenResource("Vpc", "main", "id"))))
EmptyReference == Ptr(ValueFrom(Nil, Nil, Nil))
ResolveSpecs ==
    [ImageID : {[Value |-> Ptr(<<"a", "m", "i">>), ValueFrom |-> Nil],
                [Value |-> Nil, ValueFrom |-> Nil],
                [Value |-> Nil, ValueFrom |-> ConfigMapReference]},
     InstanceType : {[Value |-> Ptr(<<"t", "2">>), ValueFrom |-> Nil],
                     [Value |-> Nil, ValueFrom |-> KrakenReference]},
     MaxCount : {[Value |-> Ptr(2), ValueFrom |-> Nil],
                 [Value |-> Nil, ValueFrom |-> Nil],
                 [Value |-> Nil, ValueFrom |-> ConfigMapReference]},
     MinCount : {[Value |-> Ptr(1), ValueFrom |-> Nil],
                 [Value |-> Nil, ValueFrom |-> KrakenReference],
                 [Value |-> Nil, ValueFrom |-> EmptyReference]},
     tags : {<< >>}]
ResolveSnapshots ==
    [FromConfigMaps : {<< >>} \cup
        {[n \in {"cm"} |-> [k \in {"k"} |-> str]] : str \in {<<"2">>, <<"a">>}},
     FromKrakenResources : {<< >>} \cup
        {[c \in {"Vpc"} |-> [n \in {"main"} |-> [q \in {"id"} |-> raw]]] :
            raw \in {[json |-> "number", halves |-> 3], [json |-> "string", v |-> <<"t", "2">>],
                     [json |-> "null"]}}]

\* an object past its first two passes, waiting for a steady pass
InitResolve ==
    /\ \E s \in ResolveSpecs :
        store = [k \in Keys |->
            IF k = Tenant
            THEN [present |-> TRUE, spec |-> s,
                  conditions |-> SetStatusCondition(<< >>,
                      Condition("Unknown", "Reconciling", "Initial reconciliation")),
                  finalizers |-> {ec2InstanceFinalizer}, deletionTimestamp |-> FALSE]
            ELSE Absent]
    /\ docs = [k \in Keys |-> NoDoc]
    /\ pool = <<ForeignInstance>>
    /\ queue = {Tenant}
    /\ pass = NoPass
    /\ served = {}
    /\ \E dv \in ResolveSnapshots : probe = [op |-> "snapshot", dv |-> dv, outOfRange |-> IntMin]

\* the steady pass that resolves the applicable values first: a failed
\* resolution ends the pass with the error, before any provider call or write
ReconcileResolve(k) ==
    /\ Idle
    /\ k \in queue
    /\ store[k].present
    /\ Len(store[k].conditions) # 0
    /\ ContainsFinalizer(store[k], ec2InstanceFinalizer)
    /\ ~isMarkedForDeletion(store[k])
    /\ \E av \in {toApplicableValues(store[k].spec, probe.dv, probe.outOfRange)} :
          IF av.panic \/ av.err # NoErr
          THEN Commit(k, "steady",
                      ReturnError(pool, <<GetCall(k, TRUE)>>, store[k], docs[k]))
          ELSE \E failing \in FaultSets \ {{"get"}} :
               \E created \in CreatedChoicesFor(k, av.val.v.maxCount, av.val.v.minCount) :
                  Commit(k, "steady",
                         SteadyPassFor(k, store[k], av.val.v.maxCount, av.val.v.minCount,
                                       store[k].spec.tags, docs[k], pool, failing, created))

NextResolve ==
    \/ ReconcileResolve(Tenant)
    \/ PassReturns

SpecResolve == InitResolve /\ [][NextResolve]_vars

\* ------------------------------------------------------------ tagged specs
\* spec tags of a user: none, a tag of their own, and tags under the keys the
\* controller uses for the identity
SpecTagsValues ==
    {[t \in {} |-> ""],
     [t \in {"team"} |-> "blue"],
     [t \in {nameTagKey} |-> "other"],
     [t \in {namespaceTagKey, "team"} |-> IF t = "team" THEN "blue" ELSE "prod"]}
TaggedSpecValues ==
    [maxCount : 1..MaxCountBound, minCount : 1..MaxCountBound, tags : SpecTagsValues]

\* an object with spec tags past its first two passes
InitTagged ==
    /\ \E s \in TaggedSpecValues :
        store = [k \in Keys |->
            IF k = Tenant
            THEN [present |-> TRUE, spec |-> s,
                  conditions |-> SetStatusCondition(<< >>,
                      Condition("Unknown", "Reconciling", "Initial reconciliation")),
                  finalizers |-> {ec2InstanceFinalizer}, deletionTimestamp |-> FALSE]
            ELSE Absent]
    /\ docs = [k \in Keys |-> NoDoc]
    /\ pool = <<ForeignInstance>>
    /\ queue = {Tenant}
    /\ pass = NoPass
    /\ served = {}
    /\ probe = NoProbe

NextTagged ==
    \/ ReconcileSteady(Tenant)
    \/ InstanceStarts
    \/ PassReturns

SpecTagged == InitTagged /\ [][NextTagged]_vars

\* ------------------------------------------------------- concurrent passes
\* Reconcile call by call, one worker per identity: the workers of the two
\* identities take their steps in any order.  probe.workers[k] is the pass in
\* flight for k: where it is, the object it loaded and the list it holds.
IdleWorker == [pc |-> "idle", obj |-> Absent, instances |-> << >>]
Worker(k) == probe.workers[k]
SetWorker(k, pc, obj, instances) ==
    probe' = [probe EXCEPT !.workers[k] = [pc |-> pc, obj |-> obj, instances |-> instances]]
\* the write is refused when the object changed since the pass loaded it
Current(k) == store[k] = Worker(k).obj

InitialPools ==
    LET inst(i, k) == [id |-> i, state |-> "running", tags |-> makeInstanceTags(k, << >>)]
    IN {<< >>, <<inst(1, Neighbour)>>,
        <<inst(1, Tenant), inst(2, Neighbour), inst(3, Tenant)>>}

\* both objects newly created, instances of both in the account; the tenant's
\* spec is any, the neighbour asks for one instance
InitConcurrent ==
    /\ \E specs \in {f \in [Keys -> SpecValues] :
                        f[Neighbour].maxCount = 1 /\ f[Neighbour].minCount = 1} :
        store = [k \in Keys |->
            [present |-> TRUE, spec |-> specs[k], conditions |-> << >>,
             finalizers |-> {}, deletionTimestamp |-> FALSE]]
    /\ docs = [k \in Keys |-> NoDoc]
    /\ pool \in InitialPools
    /\ queue = Keys
    /\ pass = NoPass
    /\ served = {}
    /\ probe = [op |-> "workers", workers |-> [k \in Keys |-> IdleWorker]]

\* r.Get, and the branch the loaded object selects
WorkerLoad(k) ==
    /\ Worker(k).pc = "idle"
    /\ k \in queue
    /\ queue' = queue \ {k}
    /\ IF ~store[k].present
       THEN UNCHANGED probe
       ELSE SetWorker(k, IF Len(store[k].conditions) = 0 THEN "initStatus"
                         ELSE IF ~ContainsFinalizer(store[k], ec2InstanceFinalizer)
                         THEN "addFinalizer"
                         ELSE IF isMarkedForDeletion(store[k]) THEN "finalizeList"
                         ELSE "list",
                      store[k], << >>)
    /\ UNCHANGED <<store, docs, pool, pass, served>>

\* the status write of the first pass
WorkerInitStatus(k) ==
    LET stored == StatusUpdate(store[k], WithCondition(Worker(k).obj, "Unknown", "Reconciling",
                                                       "Initial reconciliation"))
    IN /\ Worker(k).pc = "initStatus"
       /\ Current(k)
       /\ store' = [store EXCEPT ![k] = stored]
       /\ queue' = queue \cup {k}
       /\ SetWorker(k, "idle", Absent, << >>)
       /\ UNCHANGED <<docs, pool, pass, served>>

\* the object write of the second pass
WorkerAddFinalizer(k) ==
    LET stored == Update(store[k],
                         [Worker(k).obj EXCEPT !.finalizers = @ \cup {ec2InstanceFinalizer}])
    IN /\ Worker(k).pc = "addFinalizer"
       /\ Current(k)
       /\ store' = [store EXCEPT ![k] = stored]
       /\ queue' = queue \cup {k}
       /\ SetWorker(k, "idle", Absent, << >>)
       /\ UNCHANGED <<docs, pool, pass, served>>

\* GetInstances for pending and running instances
WorkerList(k) ==
    /\ Worker(k).pc = "list"
    /\ SetWorker(k, "scale", Worker(k).obj, GetInstances(pool, PendingRunningFilter(k)))
    /\ UNCHANGED <<store, docs, pool, queue, pass, served>>

\* TerminateInstances or RunInstances, as the count of the list demands
WorkerScale(k) ==
    LET w == Worker(k)
        count == Len(w.instances)
        maxCount == w.obj.spec.maxCount
        adj == adjustMaxMinInstanceCount(count, maxCount, w.obj.spec.minCount)
        tags == makeInstanceTags(k, w.obj.spec.tags)
    IN /\ w.pc = "scale"
       /\ IF ScaleDownNeeded(count, maxCount)
          THEN /\ pool' = TerminateInstances(pool,
                              InstanceIds(ScaleDownVictims(w.instances, maxCount)))
               /\ SetWorker(k, "requery", w.obj, w.instances)
          ELSE IF ScaleUpNeeded(count, maxCount)
          THEN /\ \E created \in Creatable(pool, adj.newMax, adj.newMin) :
                    pool' = pool \o NewInstances(pool, created, tags)
               /\ SetWorker(k, "wait", w.obj, w.instances)
          ELSE /\ pool' = pool
               /\ SetWorker(k, "requery", w.obj, w.instances)
       /\ UNCHANGED <<store, docs, queue, pass, served>>

WorkerWait(k) ==
    /\ Worker(k).pc = "wait"
    /\ pool' = WaitUntilRunning(pool, PendingRunningFilter(k))
    /\ SetWorker(k, "requery", Worker(k).obj, Worker(k).instances)
    /\ UNCHANGED <<store, docs, queue, pass, served>>

\* GetInstances for running instances
WorkerRequery(k) ==
    /\ Worker(k).pc = "requery"
    /\ SetWorker(k, "upsert", Worker(k).obj, GetInstances(pool, RunningFilter(k)))
    /\ UNCHANGED <<store, docs, pool, queue, pass, served>>

WorkerUpsert(k) ==
    LET data == constructStateDeclarationData(Worker(k).obj, Worker(k).instances)
    IN /\ Worker(k).pc = "upsert"
       /\ store[k].present
       /\ docs' = [docs EXCEPT ![k] = CreateOrUpdate(docs[k], k, data)]
       /\ queue' = queue \cup (IF docs'[k] # docs[k] THEN {k} ELSE {})
       /\ SetWorker(k, "status", Worker(k).obj, Worker(k).instances)
       /\ UNCHANGED <<store, pool, pass, served>>

\* the status write that ends a successful pass
WorkerStatus(k) ==
    LET stored == StatusUpdate(store[k], WithCondition(Worker(k).obj, "True", "Reconciled",
                                                       "Desired state has been reached"))
    IN /\ Worker(k).pc = "status"
       /\ Current(k)
       /\ store' = [store EXCEPT ![k] = stored]
       /\ queue' = queue \cup (IF stored # store[k] THEN {k} ELSE {})
       /\ SetWorker(k, "idle", Absent, << >>)
       /\ UNCHANGED <<docs, pool, pass, served>>

\* doFinalizerOperations: GetInstances on the identity tags alone
WorkerFinalizeList(k) ==
    /\ Worker(k).pc = "finalizeList"
    /\ SetWorker(k, "finalizeTerminate", Worker(k).obj, GetInstances(pool, IdentityFilter(k)))
    /\ UNCHANGED <<store, docs, pool, queue, pass, served>>

WorkerFinalizeTerminate(k) ==
    /\ Worker(k).pc = "finalizeTerminate"
    /\ pool' = TerminateInstances(pool, InstanceIds(Worker(k).instances))
    /\ SetWorker(k, "removeFinalizer", Worker(k).obj, Worker(k).instances)
    /\ UNCHANGED <<store, docs, queue, pass, served>>

WorkerRemoveFinalizer(k) ==
    LET stored == Update(store[k],
                         [Worker(k).obj EXCEPT !.finalizers = @ \ {ec2InstanceFinalizer}])
    IN /\ Worker(k).pc = "removeFinalizer"
       /\ Current(k)
       /\ store' = [store EXCEPT ![k] = stored]
       /\ docs' = [docs EXCEPT ![k] = IF stored.present THEN @ ELSE NoDoc]
       /\ queue' = queue \cup {k}
       /\ SetWorker(k, "idle", Absent, << >>)
       /\ UNCHANGED <<pool, pass, served>>

\* the call the pass is at fails (a write also when the object changed since
\* it was loaded): the pass reports the failure where the code does and ends
WorkerFails(k) ==
    LET w == Worker(k)
        report(status, reason, message) ==
            StatusUpdate(store[k], WithCondition(w.obj, status, reason, message))
        stored ==
            IF ~Current(k) THEN store[k]
            ELSE IF w.pc \in {"list", "requery"}
            THEN report("Unknown", "RetrievalFailed", "Failed to retrieve EC2 instances")
            ELSE IF w.pc = "wait"
            THEN report("False", "WaitForRunningError",
                        "Encountered error waiting for running state: provider error")
            ELSE IF w.pc = "upsert"
            THEN report("False", "StateDeclarationError",
                        "Failed to create/update StateDeclaration")
            ELSE store[k]
    IN /\ w.pc # "idle"
       /\ store' = [store EXCEPT ![k] = stored]
       /\ queue' = queue \cup
                   (IF w.pc # "upsert" \/ ~Current(k) \/ stored # store[k] THEN {k} ELSE {})
       /\ SetWorker(k, "idle", Absent, << >>)
       /\ UNCHANGED <<docs, pool, pass, served>>

WorkerStep(k) ==
    \/ WorkerLoad(k)
    \/ WorkerInitStatus(k)
    \/ WorkerAddFinalizer(k)
    \/ WorkerList(k)
    \/ WorkerScale(k)
    \/ WorkerWait(k)
    \/ WorkerRequery(k)
    \/ WorkerUpsert(k)
    \/ WorkerStatus(k)
    \/ WorkerFinalizeList(k)
    \/ WorkerFinalizeTerminate(k)
    \/ WorkerRemoveFinalizer(k)

\* the calls of the tenant's passes may fail at any point, the neighbour's
\* succeed
NextConcurrent ==
    \/ \E k \in Keys : WorkerStep(k)
    \/ WorkerFails(Tenant)
    \/ \E k \in Keys : DeleteObject(k)

SpecConcurrent == InitConcurrent /\ [][NextConcurrent]_vars

\* the work queue hands a queued key to a worker, a call in flight returns,
\* and a call that is made again and again succeeds at some point.  A call
\* of the steady pass and the call of the cleanup at the same place share a
\* condition, as do the writes that end a pass: an object has its steady
\* passes before it is marked for deletion and its cleanup after.
WorkerFairness(k) ==
    /\ WF_vars(WorkerLoad(k))
    /\ WF_vars(WorkerStep(k) \/ WorkerFails(k))
    /\ SF_vars(WorkerList(k) \/ WorkerFinalizeList(k))
    /\ SF_vars(WorkerScale(k) \/ WorkerFinalizeTerminate(k))
    /\ SF_vars(WorkerWait(k))
    /\ SF_vars(WorkerRequery(k))
    /\ SF_vars(WorkerUpsert(k))
    /\ SF_vars(WorkerInitStatus(k) \/ WorkerAddFinalizer(k) \/ WorkerStatus(k)
               \/ WorkerRemoveFinalizer(k))

\* the tenant's object alone, newly created, with fair passes
InitTenant ==
    /\ \E spec \in SpecValues :
        store = [k \in Keys |->
            IF k = Tenant
            THEN [present |-> TRUE, spec |-> spec, conditions |-> << >>,
                  finalizers |-> {}, deletionTimestamp |-> FALSE]
            ELSE Absent]
    /\ docs = [k \in Keys |-> NoDoc]
    /\ pool \in InitialPools
    /\ queue = {Tenant}
    /\ pass = NoPass
    /\ served = {}
    /\ probe = [op |-> "workers", workers |-> [k \in Keys |-> IdleWorker]]

NextTenant ==
    \/ WorkerStep(Tenant)
    \/ WorkerFails(Tenant)
    \/ DeleteObject(Tenant)

SpecTenantFair == InitTenant /\ [][NextTenant]_vars /\ WorkerFairness(Tenant)

\* ------------------------------------------------------------------ claims
HasCall(calls, op) == \E i \in DOMAIN calls : calls[i].op = op
CountCalls(calls, op) == Cardinality({i \in DOMAIN calls : calls[i].op = op})
Ops(calls) == [i \in DOMAIN calls |-> calls[i].op]
AllOk(calls) == \A i \in DOMAIN calls : calls[i].ok
NoProviderCall(calls) == \A i \in DOMAIN calls : calls[i].op \notin ProviderOps
NoStoreWrite(calls) ==
    \A i \in DOMAIN calls : calls[i].op \notin {"StatusUpdate", "Update", "CreateOrUpdate"}

\* the instances that carry both identity tags of k, in provider order
Tagged(instances, k) ==
    SelectSeq(instances, LAMBDA inst :
        /\ {nameTagKey, namespaceTagKey} \subseteq DOMAIN inst.tags
        /\ inst.tags[nameTagKey] = k.name
        /\ inst.tags[namespaceTagKey] = k.namespace)
TaggedIn(instances, k, states) ==
    SelectSeq(Tagged(instances, k), LAMBDA inst : inst.state \in states)
Ids(instances) == [i \in DOMAIN instances |-> instances[i].id]
TagFilter(k, states) ==
    [MatchTags |-> [t \in {"kraken-name", "kraken-namespace"} |->
                        IF t = "kraken-name" THEN k.name ELSE k.namespace],
     MatchStates |-> states]
HasFinalizer(obj) == obj.present /\ ec2InstanceFinalizer \in obj.finalizers
Ready(obj) == obj.conditions[CHOOSE i \in DOMAIN obj.conditions : obj.conditions[i].type = "Ready"]
ReadyIs(obj, status, reason) ==
    /\ obj.present
    /\ \E i \in DOMAIN obj.conditions : obj.conditions[i].type = "Ready"
    /\ Ready(obj).status = status
    /\ Ready(obj).reason = reason

\* C1: in a pass on an object marked for deletion that carries the finalizer,
\* the finalizer leaves the stored object only if the list by the identity
\* tags and the terminate call over every listed instance both succeeded in
\* that pass; if either fails the pass returns an error and the stored object
\* keeps the finalizer.
C1_FinalizerKeptUntilCleanup ==
    pass.branch = "delete" =>
        LET k == pass.key
            calls == pass.calls
            listOk == \E i \in DOMAIN calls :
                        /\ calls[i].op = "GetInstances" /\ calls[i].ok
                        /\ calls[i].args = TagFilter(k, << >>)
            termOk == \E i \in DOMAIN calls :
                        /\ calls[i].op = "TerminateInstances" /\ calls[i].ok
                        /\ calls[i].args = Ids(Tagged(pool, k))
        IN /\ ~HasFinalizer(store[k]) => listOk /\ termOk
           /\ (~listOk \/ ~termOk) => pass.err /\ HasFinalizer(store[k])

C1_Witness ==
    /\ pass.branch = "delete"
    /\ ~store[pass.key].present
    /\ \E i \in DOMAIN pass.calls :
        /\ pass.calls[i].op = "TerminateInstances"
        /\ pass.calls[i].ok
        /\ Len(pass.calls[i].args) >= 1

\* C2: a pass on an object marked for deletion with the finalizer present
\* lists by the two identity tags with no state restriction, terminates all
\* listed instances, removes the finalizer and stops: no RunInstances, no
\* WaitUntilRunning, no terminate of a sub-list, no document write and no
\* status write.
C2_DeletionPassOnlyCleansUp ==
    pass.branch = "delete" =>
        LET k == pass.key
            calls == pass.calls
        IN /\ ~HasCall(calls, "RunInstances")
           /\ ~HasCall(calls, "WaitUntilRunning")
           /\ ~HasCall(calls, "CreateOrUpdate")
           /\ ~HasCall(calls, "StatusUpdate")
           /\ \A i \in DOMAIN calls :
                /\ calls[i].op = "GetInstances" => calls[i].args = TagFilter(k, << >>)
                /\ calls[i].op = "TerminateInstances" => calls[i].args = Ids(Tagged(pool, k))
           /\ ~pass.err =>
                /\ Ops(calls) = <<"Get", "GetInstances", "TerminateInstances", "Update">>
                /\ AllOk(calls)
                /\ ~pass.requeue
                /\ ~store[k].present
                /\ \A i \in DOMAIN pool :
                     pool[i] \in Range(Tagged(pool, k)) => pool[i].state = "shutting-down"

C2_Witness ==
    /\ pass.branch = "delete"
    /\ ~pass.err
    /\ Len(pass.calls) = 4
    /\ Len(pass.calls[3].args) = 2
    /\ Len(TaggedIn(pool, pass.key, {"shutting-down"})) = 2

\* C3: a pass whose key names no object returns no error and no requeue,
\* makes no provider call and no store write, and leaves the store, the
\* documents and the provider's instances as they were.
C3_NotFoundIsNoOp ==
    [][pass'.branch = "notFound" =>
          /\ ~pass'.err
          /\ ~pass'.requeue
          /\ Ops(pass'.calls) = <<"Get">>
          /\ NoProviderCall(pass'.calls)
          /\ NoStoreWrite(pass'.calls)
          /\ store' = store /\ docs' = docs /\ pool' = pool
          /\ pass'.key \notin queue']_vars

C3_Witness ==
    /\ pass.branch = "notFound"
    /\ ~store[pass.key].present
    /\ pass.key \notin queue

\* C4: a pass that loads an object without conditions only writes the Ready
\* condition Unknown/Reconciling and stops, a pass that loads an object with
\* conditions but without the finalizer only adds the finalizer and stops, and
\* in every state no provider call has been made for an object whose stored
\* state lacks a condition or the finalizer.
C4_Initialised(obj) == Len(obj.conditions) # 0 /\ HasFinalizer(obj)

C4_PassSteps ==
    \A k \in Keys :
        (pass'.branch \notin {"none", "getFailed"} /\ pass'.key = k /\ store[k].present) =>
            /\ Len(store[k].conditions) = 0 =>
                /\ pass'.branch = "initStatus"
                /\ Ops(pass'.calls) = <<"Get", "StatusUpdate">>
                /\ pass'.calls[2].args =
                     <<[type |-> "Ready", status |-> "Unknown", reason |-> "Reconciling",
                        message |-> "Initial reconciliation"]>>
                /\ store'[k] = IF pass'.calls[2].ok
                               THEN [store[k] EXCEPT !.conditions = pass'.calls[2].args]
                               ELSE store[k]
                /\ pool' = pool /\ docs' = docs
            /\ (Len(store[k].conditions) # 0 /\ ~HasFinalizer(store[k])) =>
                /\ pass'.branch = "addFinalizer"
                /\ Ops(pass'.calls) = <<"Get", "Update">>
                /\ store'[k] = IF pass'.calls[2].ok
                               THEN [store[k] EXCEPT !.finalizers = {ec2InstanceFinalizer}]
                               ELSE store[k]
                /\ pool' = pool /\ docs' = docs

C4_NoProviderCallBeforeInitialised ==
    /\ [](\A k \in Keys : (store[k].present /\ ~C4_Initialised(store[k])) => k \notin served)
    /\ [][C4_PassSteps]_vars

C4_Witness ==
    /\ pass.branch = "addFinalizer"
    /\ ~pass.err
    /\ HasFinalizer(store[pass.key])
    /\ ReadyIs(store[pass.key], "Unknown", "Reconciling")
    /\ pass.key \notin served
    /\ pass.key \in queue

\* C5: in a steady pass whose list returns c pending/running instances with
\* c above maxCount, exactly one terminate call is made, it carries the
\* first c - maxCount instances of the list in list order, and no
\* RunInstances call is made.
C5_Step ==
    pass'.branch = "steady" =>
        LET k == pass'.key
            calls == pass'.calls
            live == Ids(TaggedIn(pool, k, {"pending", "running"}))
            c == Len(live)
            max == store[k].spec.maxCount
        IN (calls[2].op = "GetInstances" /\ calls[2].ok /\ c > max) =>
              /\ calls[2].ret = live
              /\ CountCalls(calls, "TerminateInstances") = 1
              /\ calls[3].op = "TerminateInstances"
              /\ Len(calls[3].args) = c - max
              /\ calls[3].args = [i \in 1..(c - max) |-> live[i]]
              /\ ~HasCall(calls, "RunInstances")

C7_SetsReadyTrue(call) ==
    /\ call.op = "StatusUpdate"
    /\ \E j \in DOMAIN call.args :
        call.args[j].type = "Ready" /\ call.args[j].status = "True"

C7_Step ==
    pass'.branch = "steady" =>
        LET k == pass'.key
            calls == pass'.calls
            c == Len(TaggedIn(pool, k, {"pending", "running"}))
            max == store[k].spec.maxCount
            min == store[k].spec.minCount
        IN (calls[2].op = "GetInstances" /\ calls[2].ok /\ c < max) =>
            /\ ~HasCall(calls, "TerminateInstances")
            /\ CountCalls(calls, "RunInstances") = 1
            /\ calls[3].op = "RunInstances"
            /\ calls[3].args.MaxCount = max - c
            /\ calls[3].args.MinCount = IF min - c > 1 THEN min - c ELSE 1
            /\ calls[3].ok =>
                /\ calls[4].op = "WaitUntilRunning"
                /\ calls[4].args = [filter |-> TagFilter(k, <<"pending", "running">>),
                                    timeout |-> 120]
            /\ (calls[3].ok /\ calls[4].ok) =>
                /\ calls[5].op = "GetInstances"
                /\ calls[5].args = TagFilter(k, <<"running">>)
            /\ (calls[3].ok /\ calls[4].ok /\ calls[5].ok) =>
                calls[6].op = "CreateOrUpdate"
            /\ (calls[3].ok /\ calls[4].ok /\ calls[5].ok /\ calls[6].ok) =>
                /\ Len(calls) = 7
                /\ calls[7].op = "StatusUpdate"
                /\ calls[7].args = <<[type |-> "Ready", status |-> "True",
                                      reason |-> "Reconciled",
                                      message |-> "Desired state has been reached"]>>
            /\ \A i \in DOMAIN calls :
                /\ calls[i].op = "WaitUntilRunning" => i = 4
                /\ (i > 2 /\ calls[i].op = "GetInstances") => i = 5
                /\ calls[i].op = "CreateOrUpdate" => i = 6
                /\ C7_SetsReadyTrue(calls[i]) =>
                     i = 7 /\ calls[6].op = "CreateOrUpdate" /\ calls[6].ok
            /\ (ReadyIs(store'[k], "True", "Reconciled") /\ store'[k] # store[k]) =>
                 AllOk(calls) /\ docs'[k].present

C7_ScaleUpSequence == [][C7_Step]_vars

C7_Witness ==
    /\ pass.branch = "steady"
    /\ Ops(pass.calls) = <<"Get", "GetInstances", "RunInstances", "WaitUntilRunning",
                           "GetInstances", "CreateOrUpdate", "StatusUpdate">>
    /\ AllOk(pass.calls)
    /\ pass.calls[2].ret = << >>
    /\ pass.calls[3].args.MaxCount = 1
    /\ pass.calls[3].args.MinCount = 1
    /\ store[pass.key].spec.maxCount = 1
    /\ store[pass.key].spec.minCount = 1
    /\ ReadyIs(store[pass.key], "True", "Reconciled")
    /\ Len(docs[pass.key].data.instances) = 1

\* C8: a pass on an object in the state a successful pass left (Ready
\* True/Reconciled, the document built from the present spec and the present
\* running instances) whose pending/running count equals maxCount issues no
\* RunInstances and no terminate call, and when none of its calls fails it
\* leaves the document, the Ready condition and the instances as they were.
C8_Converged(k) ==
    /\ HasFinalizer(store[k])
    /\ ~store[k].deletionTimestamp
    /\ ReadyIs(store[k], "True", "Reconciled")
    /\ docs[k].present
    /\ docs[k].data = [instances |-> TaggedIn(pool, k, {"running"}), spec |-> store[k].spec]
    /\ Len(TaggedIn(pool, k, {"pending", "running"})) = store[k].spec.maxCount

C8_Step ==
    \A k \in Keys :
        (pass'.branch = "steady" /\ pass'.key = k /\ C8_Converged(k)) =>
            /\ ~HasCall(pass'.calls, "RunInstances")
            /\ ~HasCall(pass'.calls, "TerminateInstances")
            /\ pool' = pool
            /\ AllOk(pass'.calls) =>
                /\ docs'[k] = docs[k]
                /\ store'[k] = store[k]
                /\ ReadyIs(store'[k], "True", "Reconciled")

C8_RerunIsIdempotent == [][C8_Step]_vars

C8_Witness ==
    /\ pass.branch = "steady"
    /\ Ops(pass.calls) = <<"Get", "GetInstances", "GetInstances", "CreateOrUpdate",
                           "StatusUpdate">>
    /\ AllOk(pass.calls)
    /\ ~pass.err /\ ~pass.requeue
    /\ pass.key \notin queue
    /\ C8_Converged(pass.key)
    /\ Len(docs[pass.key].data.instances) >= 1

\* C9: after a steady pass in which a provider or document call fails and
\* the write that follows succeeds, the Ready condition in the store carries
\* the reason of the failed step: RetrievalFailed for a list, TerminateFailed
\* for a scale-down terminate, RunFailed for a run, WaitForRunningError for a
\* wait, StateDeclarationError for the document upsert.
C9_Reason(op) ==
    CASE op = "GetInstances" -> "RetrievalFailed"
      [] op = "TerminateInstances" -> "TerminateFailed"
      [] op = "RunInstances" -> "RunFailed"
      [] op = "WaitUntilRunning" -> "WaitForRunningError"
      [] op = "CreateOrUpdate" -> "StateDeclarationError"

C9_FailureReasonPersisted ==
    pass.branch = "steady" =>
        \A i \in DOMAIN pass.calls :
            (/\ pass.calls[i].op \in ProviderOps \cup {"CreateOrUpdate"}
             /\ ~pass.calls[i].ok
             /\ pass.calls[Len(pass.calls)].ok) =>
                Ready(store[pass.key]).reason = C9_Reason(pass.calls[i].op)

\* C10: every pass in which a provider or store call fails ends by asking for
\* a retry: it returns an error or a result with requeue set.
C10_FailingPassAsksRetry ==
    (/\ pass.branch # "none"
     /\ \E i \in DOMAIN pass.calls :
          /\ pass.calls[i].op \in ProviderOps \cup {"CreateOrUpdate", "StatusUpdate", "Update"}
          /\ ~pass.calls[i].ok) =>
        pass.err \/ pass.requeue

\* a pass that got as far as WaitUntilRunning and had it fail
C11_WaitFailed(out) ==
    \E i \in DOMAIN out.calls :
        out.calls[i].op = "WaitUntilRunning" /\ ~out.calls[i].ok

\* C11: whenever a steady pass can scale up, the pass in which
\* WaitUntilRunning times out and the pass in which it fails with a provider
\* error record different reasons in the Ready condition.
C11_TimeoutReasonDiffers ==
    (/\ Idle
     /\ Tenant \in queue
     /\ store[Tenant].present
     /\ Len(store[Tenant].conditions) # 0
     /\ ContainsFinalizer(store[Tenant], ec2InstanceFinalizer)
     /\ ~isMarkedForDeletion(store[Tenant])) =>
        \A created \in CreatedChoices(Tenant) :
            LET timedOut == SteadyPass(Tenant, store[Tenant], docs[Tenant], pool,
                                       {"waitTimeout"}, created)
                providerErr == SteadyPass(Tenant, store[Tenant], docs[Tenant], pool,
                                          {"wait"}, created)
            IN (C11_WaitFailed(timedOut) /\ C11_WaitFailed(providerErr)) =>
                   Ready(timedOut.inmem).reason # Ready(providerErr.inmem).reason

\* the instances of all pages the provider holds for a request, in order
RECURSIVE C12_AllPages(_, _, _, _)
C12_AllPages(instances, input, pageSize, nextToken) ==
    LET output == DescribeInstancesOutput(instances, input, pageSize, nextToken)
    IN AppendReservations(output.Reservations) \o
       (IF output.NextToken = 0 THEN << >>
        ELSE C12_AllPages(instances, input, pageSize, output.NextToken))

\* C12: for every pool, filter and page size of the provider, GetInstances
\* returns the concatenation of the instances of all pages of the result,
\* which are all the instances of the pool that match the filter.
C12_GetInstancesReadsAllPages ==
    probe.op = "list" =>
        /\ probe.result =
               C12_AllPages(pool, constructDescribeInstancesInput(
                                  toFilters(probe.filter, MapOrder(probe.filter.MatchTags))),
                            probe.pageSize, 0)
        /\ probe.result = TaggedIn(pool, Tenant, Range(probe.filter.MatchStates)
                                     \cup (IF probe.filter.MatchStates = << >>
                                           THEN {"pending", "running", "terminated"}
                                           ELSE {}))

\* C13: a deletion pass whose list succeeds and returns no instance sends no
\* terminate request to the provider and goes on to remove the finalizer: when
\* its store write succeeds the object is gone after the pass.
C13_EmptyTerminateIsNoOp ==
    (/\ pass.branch = "delete"
     /\ \E i \in DOMAIN pass.calls :
          /\ pass.calls[i].op = "GetInstances"
          /\ pass.calls[i].ok
          /\ pass.calls[i].ret = << >>) =>
        /\ ~HasCall(pass.calls, "TerminateInstances")
        /\ HasCall(pass.calls, "Update")
        /\ pass.calls[Len(pass.calls)].ok => ~store[pass.key].present

\* the option of a resolver probe has no literal and exactly this reference
OnlyReference(opt, ref) ==
    /\ opt.Value = Nil
    /\ opt.ValueFrom # Nil
    /\ (opt.ValueFrom.v.ConfigMap # Nil) = (ref = "ConfigMap")
    /\ (opt.ValueFrom.v.Secret # Nil) = (ref = "Secret")
    /\ (opt.ValueFrom.v.KrakenResource # Nil) = (ref = "KrakenResource")

\* C14: resolving a string or integer option that has no literal and whose
\* only reference is a secret reference does not panic, returns no value, and
\* returns a not-implemented error that names the secret reference.
C14_SecretIsNotImplemented ==
    (probe.op = "resolve" /\ OnlyReference(probe.option, "Secret")) =>
        /\ ~probe.result.panic
        /\ probe.result.val = Nil
        /\ probe.result.err # NoErr
        /\ probe.result.err.kind = "notImplemented"

\* C15: GenerateDependencyRequestSpec returns for every spec, also for one
\* in which a field's reference is a secret reference: it never panics.
C15_RequestBuilderReturns ==
    probe.op = "request" => ~probe.result.panic

\* C16: resolving an option that has a literal returns the literal and no
\* error, whatever reference the option carries and whatever the snapshot
\* holds.
C16_LiteralWins ==
    (probe.op = "resolve" /\ probe.option.Value # Nil) =>
        probe.result = [panic |-> FALSE, val |-> probe.option.Value, err |-> NoErr]

C16_Witness ==
    /\ probe.op = "resolve"
    /\ probe.kind = "int"
    /\ probe.option.Value = Ptr(3)
    /\ probe.option.ValueFrom # Nil
    /\ probe.option.ValueFrom.v.Secret # Nil
    /\ probe.option.ValueFrom.v.ConfigMap # Nil
    /\ probe.dv.FromConfigMaps = << >>
    /\ probe.dv.FromKrakenResources = << >>
    /\ probe.result.val = Ptr(3)
    /\ probe.result.err = NoErr

\* the lookup failure that names a level and its name, with no value
C17_LookupFailure(result, level, name) ==
    /\ ~result.panic
    /\ result.val = Nil
    /\ result.err.kind = "lookup"
    /\ result.err.level = level
    /\ result.err.name = name

\* C17: for a string or integer option without a literal, a config reference
\* whose config-source name is missing from the snapshot fails naming that
\* name and one whose key is missing fails naming the key; a cross-resource
\* reference (with no config reference beside it) fails naming the first of
\* kind, name, path that is missing; none returns a value.
C17_MissingTargetIsNamed ==
    (probe.op = "resolve" /\ probe.option.Value = Nil /\ probe.option.ValueFrom # Nil) =>
        LET vf == probe.option.ValueFrom.v
            cms == probe.dv.FromConfigMaps
            krs == probe.dv.FromKrakenResources
        IN /\ vf.ConfigMap # Nil =>
                /\ vf.ConfigMap.v.Name \notin DOMAIN cms =>
                       C17_LookupFailure(probe.result, "ConfigMap", vf.ConfigMap.v.Name)
                /\ (/\ vf.ConfigMap.v.Name \in DOMAIN cms
                    /\ vf.ConfigMap.v.Key \notin DOMAIN cms[vf.ConfigMap.v.Name]) =>
                       C17_LookupFailure(probe.result, "key", vf.ConfigMap.v.Key)
           /\ (vf.ConfigMap = Nil /\ vf.KrakenResource # Nil) =>
                LET kr == vf.KrakenResource.v
                IN /\ kr.Kind \notin DOMAIN krs =>
                       C17_LookupFailure(probe.result, "kind", kr.Kind)
                   /\ (kr.Kind \in DOMAIN krs /\ kr.Name \notin DOMAIN krs[kr.Kind]) =>
                       C17_LookupFailure(probe.result, "resource", kr.Name)
                   /\ (/\ kr.Kind \in DOMAIN krs
                       /\ kr.Name \in DOMAIN krs[kr.Kind]
                       /\ kr.Path \notin DOMAIN krs[kr.Kind][kr.Name]) =>
                       C17_LookupFailure(probe.result, "path", kr.Path)

C17_Witness ==
    /\ probe.op = "resolve"
    /\ probe.kind = "int"
    /\ OnlyReference(probe.option, "ConfigMap")
    /\ DOMAIN probe.dv.FromConfigMaps = {"cm"}
    /\ DOMAIN probe.dv.FromConfigMaps["cm"] = {}
    /\ probe.result.err = [kind |-> "lookup", level |-> "key", name |-> "k"]
    /\ probe.result.val = Nil

\* the payload a cross-resource reference of the probe resolves to, if the
\* whole chain is in the snapshot
C18_HasPayload ==
    /\ probe.op = "resolve"
    /\ OnlyReference(probe.option, "KrakenResource")
    /\ "Vpc" \in DOMAIN probe.dv.FromKrakenResources
    /\ "main" \in DOMAIN probe.dv.FromKrakenResources["Vpc"]
    /\ "id" \in DOMAIN probe.dv.FromKrakenResources["Vpc"]["main"]
C18_Payload == probe.dv.FromKrakenResources["Vpc"]["main"]["id"]
C18_Shape(json) ==
    CASE json = "string" -> "string"
      [] json = "number" -> "float64"
      [] json = "bool" -> "bool"
      [] json = "null" -> "nil"
      [] json = "object" -> "map"
      [] json = "array" -> "slice"

\* C18: for a cross-resource reference whose payload parses, resolution
\* never panics; it returns a value and no error exactly when the parsed shape
\* is the requested one (string for a string option, number for an integer
\* option), and for every other shape (string, number, boolean, null, object,
\* array) no value and a wrong-shape error with the requested and the actual
\* shape.
C18_ShapeIsChecked ==
    (C18_HasPayload /\ C18_Payload.json # "invalid") =>
        LET requested == IF probe.kind = "string" THEN "string" ELSE "float64"
            actual == C18_Shape(C18_Payload.json)
        IN /\ ~probe.result.panic
           /\ actual = requested => (probe.result.val # Nil /\ probe.result.err = NoErr)
           /\ actual # requested =>
                /\ probe.result.val = Nil
                /\ probe.result.err =
                       [kind |-> "wrongShape", expected |-> requested, actual |-> actual]

\* the integer a number given in halves has when its fraction is cut off
C19_Trunc(halves) ==
    CHOOSE t \in -(2 ^ (IntBits + 1))..(2 ^ (IntBits + 1)) :
        /\ 2 * AbsVal(t) <= AbsVal(halves)
        /\ AbsVal(halves) < 2 * AbsVal(t) + 2
        /\ (t > 0 => halves > 0) /\ (t < 0 => halves < 0)

\* the numbers (in halves) a float of MantBits bits of precision holds, and
\* the one nearest to a number, the even one of two equally near
C19_Floats ==
    {sign * m * 2 ^ e : sign \in {-1, 1}, m \in 0..(2 ^ MantBits - 1),
                        e \in 0..(IntBits + 2 - MantBits)}
C19_NearestFloat(halves) ==
    CHOOSE f \in C19_Floats :
        \A g \in C19_Floats :
            /\ AbsVal(f - halves) <= AbsVal(g - halves)
            /\ (g # f /\ AbsVal(f - halves) = AbsVal(g - halves)) =>
                   f % (2 * AbsVal(f - g)) = 0

C19_NumberPayload ==
    /\ C18_HasPayload
    /\ probe.kind = "int"
    /\ C18_Payload.json = "number"

\* C19 as claimed: an integer option resolved through a cross-resource
\* reference to a JSON number within the integer range returns that number
\* with its fraction cut off.
C19_TruncatesEveryNumber ==
    (C19_NumberPayload /\ C19_Trunc(C18_Payload.halves) \in Ints) =>
        probe.result = [panic |-> FALSE, val |-> Ptr(C19_Trunc(C18_Payload.halves)),
                        err |-> NoErr]

\* C19 as amended: the result is the float nearest to the JSON number with
\* its fraction cut off, whenever that lies within the integer range.
C19_TruncatesDecodedFloat ==
    (C19_NumberPayload /\ C19_Trunc(C19_NearestFloat(C18_Payload.halves)) \in Ints) =>
        probe.result = [panic |-> FALSE,
                        val |-> Ptr(C19_Trunc(C19_NearestFloat(C18_Payload.halves))),
                        err |-> NoErr]

C19_Witness ==
    /\ C19_NumberPayload
    /\ C18_Payload.halves = -7
    /\ probe.result.val = Ptr(-3)
    /\ probe.result.err = NoErr

\* C20: for every FilterOptions, the filters toFilters returns are exactly
\* one tag filter per entry of MatchTags, with the entry's value as its only
\* value, and, when MatchStates is non-empty, exactly one state filter whose
\* values are MatchStates; nothing else, so none for empty FilterOptions.
C20_OneFilterPerTagAndStates ==
    probe.op = "filters" =>
        LET f == probe.filter
            r == probe.result
            stateFilters == {i \in DOMAIN r : r[i].Name = "instance-state-name"}
        IN /\ \A k \in DOMAIN f.MatchTags :
                Cardinality({i \in DOMAIN r :
                    r[i].Name = "tag:" \o k /\ r[i].Values = <<f.MatchTags[k]>>}) = 1
           /\ Cardinality(stateFilters) = (IF f.MatchStates = << >> THEN 0 ELSE 1)
           /\ \A i \in stateFilters : r[i].Values = f.MatchStates
           /\ Len(r) = Cardinality(DOMAIN f.MatchTags) + Cardinality(stateFilters)

C20_Witness ==
    /\ probe.op = "filters"
    /\ DOMAIN probe.filter.MatchTags = {"a", "b"}
    /\ probe.filter.MatchTags["a"] = "1" /\ probe.filter.MatchTags["b"] = "2"
    /\ probe.filter.MatchStates = <<"pending", "running">>
    /\ Len(probe.result) = 3

\* C21: every pass that loads an object whose conditions are initialised
\* (the pass that adds the finalizer, the deletion pass, the steady pass,
\* whether it succeeds or aborts) writes the Ready condition exactly once, and
\* while the object is in the store its condition list holds exactly one Ready
\* condition, which after a successful write is the one the pass wrote.
C21_ReadyWrittenOncePerPass ==
    /\ \A k \in Keys :
          (store[k].present /\ Len(store[k].conditions) # 0) =>
              Cardinality({i \in DOMAIN store[k].conditions :
                              store[k].conditions[i].type = conditionTypeReady}) = 1
    /\ pass.branch \in {"addFinalizer", "delete", "steady"} =>
          /\ CountCalls(pass.calls, "StatusUpdate") = 1
          /\ \A i \in DOMAIN pass.calls :
                (/\ pass.calls[i].op = "StatusUpdate"
                 /\ pass.calls[i].ok
                 /\ store[pass.key].present) =>
                    store[pass.key].conditions = pass.calls[i].args

\* C22: after a steady pass in which every call succeeded, the document of
\* the object is named "ec2-" followed by the object name, lies in the
\* object's namespace, is owned by the object, and its data are the object's
\* spec and the instances the requery restricted to state running returned
\* (the running instances with the identity tags), not the earlier list.
C22_Successful ==
    /\ pass.branch = "steady"
    /\ AllOk(pass.calls)
    /\ HasCall(pass.calls, "CreateOrUpdate")
C22_Requery == pass.calls[Len(pass.calls) - 2]
C22_DocumentFromRequery ==
    C22_Successful =>
        LET k == pass.key
            doc == docs[k]
        IN /\ doc.present
           /\ doc.name = "ec2-" \o k.name
           /\ doc.namespace = k.namespace
           /\ doc.owner = k
           /\ doc.data.spec = store[k].spec
           /\ C22_Requery.op = "GetInstances"
           /\ C22_Requery.args = TagFilter(k, <<"running">>)
           /\ Ids(doc.data.instances) = C22_Requery.ret
           /\ doc.data.instances = TaggedIn(pool, k, {"running"})
           /\ pass.calls[Len(pass.calls) - 1].args = doc.data
\* a pass whose first list held a pending instance that the requery left out
C22_Witness ==
    /\ C22_Successful
    /\ Len(pass.calls) = 5
    /\ Len(pass.calls[2].ret) = 1
    /\ C22_Requery.ret = << >>
    /\ docs[pass.key].data.instances = << >>

\* C23: when one of ImageID, InstanceType, MaxCount, MinCount resolves to an
\* error or to no value, toApplicableValues returns an error and a nil result,
\* and the steady pass ends with that error after loading the object: no
\* provider call, no store write, the object (its Ready condition included),
\* the document and the instances as before, and the key back on the queue.
C23_Resolved(obj) ==
    <<StringToApplicableValue(obj.spec.ImageID, probe.dv),
      StringToApplicableValue(obj.spec.InstanceType, probe.dv),
      IntToApplicableValue(obj.spec.MaxCount, probe.dv, probe.outOfRange),
      IntToApplicableValue(obj.spec.MinCount, probe.dv, probe.outOfRange)>>
C23_Unresolved(obj) ==
    /\ \A i \in 1..4 : ~C23_Resolved(obj)[i].panic
    /\ \E i \in 1..4 : C23_Resolved(obj)[i].err # NoErr \/ C23_Resolved(obj)[i].val = Nil
C24_RunCarriesIdentityAndSpecTags ==
    pass.branch = "steady" =>
        \A i \in DOMAIN pass.calls :
            pass.calls[i].op = "RunInstances" =>
                LET sent == pass.calls[i].args.Tags
                    specTags == store[pass.key].spec.tags
                IN /\ DOMAIN sent = DOMAIN specTags \cup {"kraken-name", "kraken-namespace"}
                   /\ sent["kraken-name"] = pass.key.name
                   /\ sent["kraken-namespace"] = pass.key.namespace
                   /\ \A t \in DOMAIN specTags \ {"kraken-name", "kraken-namespace"} :
                         sent[t] = specTags[t]
\* a successful RunInstances call for a spec that tags the instances with a
\* team and with another namespace under the identity key
C24_Witness ==
    /\ pass.branch = "steady"
    /\ \E i \in DOMAIN pass.calls :
          /\ pass.calls[i].op = "RunInstances"
          /\ pass.calls[i].ok
          /\ "team" \in DOMAIN pass.calls[i].args.Tags
          /\ pass.calls[i].args.Tags["team"] = "blue"
    /\ "kraken-namespace" \in DOMAIN store[pass.key].spec.tags
    /\ store[pass.key].spec.tags["kraken-namespace"] # pass.key.namespace

\* C25: for machine integers with min <= max and an observed count that is
\* not negative and below max, the bounds adjustMaxMinInstanceCount hands to
\* RunInstances form a valid range: newMax >= 1, newMin >= 1, newMin <= newMax.
C25_BoundsFormValidRange ==
    (/\ probe.op = "adjust"
     /\ probe.min <= probe.max
     /\ 0 <= probe.current
     /\ probe.current < probe.max) =>
        /\ probe.result.newMax >= 1
        /\ probe.result.newMin >= 1
        /\ probe.result.newMin <= probe.result.newMax

\* C26: after every steady pass in which RunInstances succeeded, whatever
\* happened in the passes before it and in the rest of this one, the number of
\* pending and running instances with the object's identity tags is the number
\* the list returned plus the number created, and is at most maxCount.
C26_Run ==
    CHOOSE i \in DOMAIN pass.calls : pass.calls[i].op = "RunInstances"
C26_NoOvershoot ==
    (/\ pass.branch = "steady"
     /\ \E i \in DOMAIN pass.calls : pass.calls[i].op = "RunInstances" /\ pass.calls[i].ok) =>
        LET k == pass.key
            live == Len(TaggedIn(pool, k, {"pending", "running"}))
        IN /\ live = Len(pass.calls[2].ret) + pass.calls[C26_Run].ret
           /\ live <= store[k].spec.maxCount
\* a pass that finds the instance an earlier pass started, starts one more and
\* fails afterwards, leaving exactly maxCount instances
C26_Witness ==
    /\ pass.branch = "steady"
    /\ \E i \in DOMAIN pass.calls : pass.calls[i].op = "RunInstances" /\ pass.calls[i].ok
    /\ ~AllOk(pass.calls)
    /\ Len(pass.calls[2].ret) = 1
    /\ pass.calls[C26_Run].ret = 1
    /\ store[pass.key].spec.maxCount = 2
    /\ Len(TaggedIn(pool, pass.key, {"pending", "running"})) = 2

\* C27: when a steady pass has written Ready True/Reconciled for a spec with
\* minCount <= maxCount, the number of running instances that carry the
\* object's identity tags lies between minCount and maxCount.
C27_ReconciledMeansRunningInRange ==
    (/\ pass.branch = "steady"
     /\ AllOk(pass.calls)
     /\ C7_SetsReadyTrue(pass.calls[Len(pass.calls)])
     /\ store[pass.key].spec.minCount <= store[pass.key].spec.maxCount) =>
        LET running == Len(TaggedIn(pool, pass.key, {"running"}))
        IN /\ ReadyIs(store[pass.key], "True", "Reconciled")
           /\ store[pass.key].spec.minCount <= running
           /\ running <= store[pass.key].spec.maxCount

\* C28: with the passes of two identities taking their calls in any order,
\* every step of the pass for one identity leaves the other identity's
\* instances, object, document and pass as they are; a list of the pass holds
\* exactly the instances with its own identity tags in the listed states, as
\* it would with no other identity in the account; and the instances a step
\* terminates are instances that list returned.
C28_Other(k) == CHOOSE o \in Keys : o # k
C28_ListedStates(pc) ==
    IF pc = "list" THEN {"pending", "running"}
    ELSE IF pc = "requery" THEN {"running"}
    ELSE {"pending", "running", "shutting-down"}
C28_Terminated ==
    {pool[i].id : i \in {j \in DOMAIN pool : pool'[j].state # pool[j].state
                                               /\ pool'[j].state = "shutting-down"}}
C28_Step(k) ==
    LET o == C28_Other(k)
        w == probe.workers[k]
    IN probe'.workers[k] # w =>
        /\ Tagged(pool', o) = Tagged(pool, o)
        /\ store'[o] = store[o]
        /\ docs'[o] = docs[o]
        /\ probe'.workers[o] = probe.workers[o]
        /\ w.pc \in {"list", "requery", "finalizeList"} /\ probe'.workers[k].pc # "idle" =>
              probe'.workers[k].instances = TaggedIn(pool, k, C28_ListedStates(w.pc))
        /\ C28_Terminated \subseteq Range(Ids(Tagged(w.instances, k)))
        /\ Tagged(pool', k) # Tagged(pool, k) =>
              w.pc \in {"scale", "wait", "finalizeTerminate"}
C28_PassesDoNotInterfere == [][\A k \in Keys : C28_Step(k)]_vars
\* the pass of one identity has terminated its instance while the other
\* identity's pass, started before, is still in flight next to a running
\* instance of its own
C28_Witness ==
    /\ probe.op = "workers"
    /\ \E k \in Keys :
          /\ probe.workers[k].pc = "removeFinalizer"
          /\ Len(probe.workers[k].instances) = 1
          /\ probe.workers[C28_Other(k)].pc = "upsert"
          /\ Len(TaggedIn(pool, C28_Other(k), {"running"})) = 1
          /\ Len(TaggedIn(pool, k, {"shutting-down"})) = 1

\* C29: with keys redelivered and calls that succeed at some point, an object
\* that is marked for deletion and carries the finalizer loses the finalizer
\* at some point; and at the step that removes it the pass holds the list of
\* all instances with the identity tags, in any state, and a terminate request
\* has been made for every one of them.
C29_Deleting ==
    /\ HasFinalizer(store[Tenant])
    /\ store[Tenant].deletionTimestamp
C29_Removal ==
    (HasFinalizer(store[Tenant]) /\ ~HasFinalizer(store'[Tenant])) =>
        /\ probe.workers[Tenant].pc = "removeFinalizer"
        /\ Ids(probe.workers[Tenant].instances) = Ids(Tagged(pool, Tenant))
        /\ TaggedIn(pool, Tenant, {"shutting-down"}) = Tagged(pool, Tenant)
C29_FinalizerEventuallyRemoved ==
    /\ C29_Deleting ~> ~HasFinalizer(store[Tenant])
    /\ [][C29_Removal]_vars
\* the object gone after the cleanup of two instances
C29_Witness ==
    /\ probe.op = "workers"
    /\ ~store[Tenant].present
    /\ ~store[Neighbour].present
    /\ Len(Tagged(pool, Tenant)) = 2
    /\ TaggedIn(pool, Tenant, {"shutting-down"}) = Tagged(pool, Tenant)

\* C30: with keys redelivered after every write to the object and after every
\* pass that asks for a retry, a spec that does not change and has
\* minCount <= maxCount, and calls that succeed at some point, a newly created
\* object that is not deleted reaches Ready = True with reason Reconciled; and
\* no failure leaves the object without that condition and without a further
\* pass requested.
C30_Live ==
    /\ store[Tenant].present
    /\ ~store[Tenant].deletionTimestamp
    /\ store[Tenant].spec.minCount <= store[Tenant].spec.maxCount
C30_Reconciled ==
    /\ store[Tenant].present
    /\ \E i \in DOMAIN store[Tenant].conditions :
        /\ store[Tenant].conditions[i].type = "Ready"
        /\ store[Tenant].conditions[i].status = "True"
        /\ store[Tenant].conditions[i].reason = "Reconciled"
C30_PassRequested ==
    \/ Tenant \in queue
    \/ Worker(Tenant).pc # "idle"
C30_EventuallyReconciled ==
    /\ [](C30_Live /\ ~C30_Reconciled => C30_PassRequested)
    /\ C30_Live ~> (C30_Reconciled \/ ~C30_Live)

====
